---- MODULE Spec2Model ----
(***************************************************************************)
(* A model of the Saba Quote Builder back end: the relational tables of    *)
(* db/schema.sql, the Express route handlers of routes/quotes.js,          *)
(* routes/products.js, routes/customers.js and routes/settings.js, and the *)
(* settings routes of the single-file server.  One action is one HTTP      *)
(* request handled from start to finish; `resp` is the response it sent.   *)
(* Money is held in cents, a JSON number with one decimal in tenths.       *)
(***************************************************************************)
EXTENDS Integers, Sequences, FiniteSets, TLC

VARIABLES customers, products, quotes, quote_items, pricing_settings,
          organizations, users, inflight, resp

vars == <<customers, products, quotes, quote_items, pricing_settings,
         organizations, users, inflight, resp>>

(***************************************************************************)
(* Bounds of the model.                                                    *)
(***************************************************************************)
\* longest items array a request body carries
MaxItems == 1
\* number of quote ids uuidv4() can hand out
MaxQuotes == 2
\* longest products array an import body carries
MaxImport == 1

\* SQL NULL, a JSON field that is absent (undefined)
None == "none"

\* requests of one route in flight together
MaxInflight == 2

\* the tenants; a verified token carries one of them as organizationId
Orgs == {"orgA", "orgB"}

QuoteIds == 1..MaxQuotes
CustomerIds == {"c1", "c2"}
ProductIds == {"p1", "p2", "p3"}

\* schema.sql: status VARCHAR(50) DEFAULT 'draft', with the documented values
Statuses == {"draft", "sent", "accepted", "rejected", "expired"}

(***************************************************************************)
(* Table helpers: a table is a function from primary key to row.           *)
(***************************************************************************)
Upsert(table, id, row) ==
  [k \in (DOMAIN table) \cup {id} |-> IF k = id THEN row ELSE table[k]]

Remove(table, ids) ==
  [k \in (DOMAIN table) \ ids |-> table[k]]

RECURSIVE SumSeq(_)
SumSeq(s) == IF s = <<>> THEN 0 ELSE Head(s) + SumSeq(Tail(s))

(***************************************************************************)
(* Rows.  A customer, a product and a quote carry the organization that    *)
(* owns them; a quote item belongs to its quote.                           *)
(***************************************************************************)
CustomerRow(org, name, type) ==
  [organization_id |-> org, name |-> name, type |-> type]

ProductRow(org, b) ==
  [organization_id |-> org, name |-> b.name, farm |-> b.farm,
   cases_per_pallet |-> b.casesPerPallet, cost_per_case |-> b.costPerCase,
   bipoc |-> b.bipoc, gap_certified |-> b.gapCertified]

\* a quote row that takes its status from the request body
QuoteRowFromBody(org, body) ==
  [organization_id |-> org, customer_id |-> body.customerId,
   distance |-> body.distance, notes |-> body.notes,
   status |-> IF body.status = None THEN "draft" ELSE body.status]

\* INSERT INTO quotes (...) VALUES ($1, $2, $3, $4, $5, 'draft', $6)
QuoteRow(org, body) ==
  [organization_id |-> org, customer_id |-> body.customerId,
   distance |-> body.distance, notes |-> body.notes, status |-> "draft"]

\* INSERT INTO quote_items (quote_id, product_id, cases, margin_percent, ...)
ItemRow(qid, item) ==
  [quote_id |-> qid, product_id |-> item.productId,
   cases |-> item.cases10 \div 10, margin_percent |-> item.marginPercent,
   unit_cost |-> item.unitCost, freight_cost |-> item.freightCost,
   line_total |-> item.lineTotal]

\* The insert of one line succeeds when the row satisfies the table: product_id
\* REFERENCES products(id), and cases is of type INTEGER (1.5 is refused).
\* The table has no CHECK on cases or margin_percent.
ItemInsertable(prods, item) ==
  /\ item.productId \in DOMAIN prods
  /\ item.cases10 % 10 = 0

\* index of the first line whose INSERT throws, Len + 1 when none does
FirstBad(prods, items) ==
  IF \A i \in 1..Len(items) : ItemInsertable(prods, items[i])
  THEN Len(items) + 1
  ELSE CHOOSE i \in 1..Len(items) :
         /\ ~ItemInsertable(prods, items[i])
         /\ \A j \in 1..(i - 1) : ItemInsertable(prods, items[j])

\* for (const item of items) await db.query(INSERT ...): the lines before the
\* first failing one are stored, each by its own statement
InsertItems(table, prods, qid, items) ==
  table \o [i \in 1..(FirstBad(prods, items) - 1) |-> ItemRow(qid, items[i])]

\* DELETE FROM quote_items WHERE quote_id = $1
DeleteItemsOf(table, qid) ==
  LET Keep(r) == r.quote_id # qid IN SelectSeq(table, Keep)

ItemsOf(table, qid) ==
  LET Mine(r) == r.quote_id = qid IN SelectSeq(table, Mine)

\* uuidv4(): an id no stored quote has
FreshQuoteIds == QuoteIds \ DOMAIN quotes
NewQuoteId == CHOOSE id \in FreshQuoteIds : \A other \in FreshQuoteIds : id <= other

\* customer_id UUID REFERENCES customers(id): NULL or a stored customer
CustomerRefOk(cid) == cid = None \/ cid \in DOMAIN customers

(***************************************************************************)
(* routes/quotes.js                                                        *)
(***************************************************************************)
\* the columns the LEFT JOIN customers adds to a quote
JoinedCustomer(q) ==
  IF q.customer_id # None /\ q.customer_id \in DOMAIN customers
  THEN [customer_name |-> customers[q.customer_id].name,
        customer_type |-> customers[q.customer_id].type,
        owner |-> {customers[q.customer_id].organization_id}]
  ELSE [customer_name |-> None, customer_type |-> None, owner |-> {}]

\* the columns the JOIN products adds to a line
JoinedItem(r) ==
  [cases |-> r.cases, margin_percent |-> r.margin_percent,
   unit_cost |-> r.unit_cost, freight_cost |-> r.freight_cost,
   line_total |-> r.line_total, product_id |-> r.product_id,
   product_name |-> products[r.product_id].name,
   farm |-> products[r.product_id].farm,
   bipoc |-> products[r.product_id].bipoc,
   gap_certified |-> products[r.product_id].gap_certified]

\* the lines of a quote under ORDER BY qi.created_at DESC
JoinedItemsNewestFirst(qid) ==
  LET rows == ItemsOf(quote_items, qid)
      Listed(r) == r.product_id \in DOMAIN products
      shown == SelectSeq(rows, Listed)
  IN [i \in 1..Len(shown) |-> JoinedItem(shown[Len(shown) + 1 - i])]

\* SELECT qi.*, ... FROM quote_items qi JOIN products p ... ORDER BY qi.created_at.
\* quote_items is held in the order of created_at: each row is written by a
\* statement of its own, so DEFAULT NOW() grows from one INSERT to the next.
JoinedItems(qid) ==
  LET rows == ItemsOf(quote_items, qid)
      Listed(r) == r.product_id \in DOMAIN products
      shown == SelectSeq(rows, Listed)
  IN [i \in 1..Len(shown) |-> JoinedItem(shown[i])]

\* the organizations owning the rows a quote's response is built from
ItemOwners(qid) ==
  LET rows == ItemsOf(quote_items, qid)
  IN {products[rows[i].product_id].organization_id :
        i \in {j \in 1..Len(rows) : rows[j].product_id \in DOMAIN products}}

\* whether a body carries a line the data model rules out: cases that are
\* not a positive integer, or a margin outside 0..100
BadLine(item) ==
  \/ item.cases10 <= 0 \/ item.cases10 % 10 # 0
  \/ item.marginPercent < 0 \/ item.marginPercent > 100

HasBadLine(body) ==
  body.hasItems /\ \E i \in 1..Len(body.items) : BadLine(body.items[i])

\* GET /api/quotes
ListQuotes(org, status, customerId) ==
  LET hit == {id \in DOMAIN quotes :
                /\ quotes[id].organization_id = org
                /\ (status # None => quotes[id].status = status)
                /\ (customerId # None => quotes[id].customer_id = customerId)}
      Line(id) ==
        LET rows == ItemsOf(quote_items, id)
        IN [id |-> id, status |-> quotes[id].status,
            customer_id |-> quotes[id].customer_id,
            customer_name |-> JoinedCustomer(quotes[id]).customer_name,
            customer_type |-> JoinedCustomer(quotes[id]).customer_type,
            item_count |-> Len(rows),
            total_value |-> SumSeq([i \in 1..Len(rows) |-> rows[i].line_total])]
  IN /\ resp' = [op |-> "GET /api/quotes", org |-> org, code |-> 200,
                 quotes |-> {Line(id) : id \in hit},
                 sources |-> UNION {{quotes[id].organization_id}
                                      \cup JoinedCustomer(quotes[id]).owner : id \in hit}]
     /\ UNCHANGED <<customers, products, quotes, quote_items, pricing_settings,
                    organizations, users, inflight>>

\* GET /api/quotes/:id
GetQuote(org, id) ==
  /\ IF id \in DOMAIN quotes /\ quotes[id].organization_id = org
     THEN resp' = [op |-> "GET /api/quotes/:id", org |-> org, code |-> 200, id |-> id,
                   quote |-> quotes[id],
                   customer_name |-> JoinedCustomer(quotes[id]).customer_name,
                   customer_type |-> JoinedCustomer(quotes[id]).customer_type,
                   items |-> JoinedItems(id),
                   sources |-> {quotes[id].organization_id}
                                 \cup JoinedCustomer(quotes[id]).owner
                                 \cup ItemOwners(id)]
     ELSE resp' = [op |-> "GET /api/quotes/:id", org |-> org, code |-> 404, id |-> id]
  /\ UNCHANGED <<customers, products, quotes, quote_items, pricing_settings,
                 organizations, users, inflight>>

\* POST /api/quotes
PostQuote(org, body) ==
  /\ FreshQuoteIds # {}
  /\ LET id == NewQuoteId
         row == QuoteRow(org, body)
     IN IF ~CustomerRefOk(body.customerId)
        THEN \* the INSERT INTO quotes throws: nothing is stored
             /\ resp' = [op |-> "POST /api/quotes", org |-> org, code |-> 500, id |-> id,
                         asked |-> body.status,
                         badLine |-> HasBadLine(body)]
             /\ UNCHANGED <<quotes, quote_items>>
        ELSE /\ quotes' = Upsert(quotes, id, row)
             /\ quote_items' = InsertItems(quote_items, products, id, body.items)
             /\ resp' = [op |-> "POST /api/quotes", org |-> org,
                         code |-> IF FirstBad(products, body.items) > Len(body.items)
                                  THEN 201 ELSE 500,
                         id |-> id, asked |-> body.status,
                         badLine |-> HasBadLine(body)]
  /\ UNCHANGED <<customers, products, pricing_settings,
                 organizations, users, inflight>>

\* PUT /api/quotes/:id
PutQuote(org, id, body) ==
  /\ IF ~(id \in DOMAIN quotes /\ quotes[id].organization_id = org)
     THEN /\ resp' = [op |-> "PUT /api/quotes/:id", org |-> org, code |-> 404, id |-> id,
                      badLine |-> HasBadLine(body)]
          /\ UNCHANGED <<quotes, quote_items>>
     ELSE IF ~CustomerRefOk(body.customerId)
     THEN \* the UPDATE quotes throws
          /\ resp' = [op |-> "PUT /api/quotes/:id", org |-> org, code |-> 500, id |-> id,
                      badLine |-> HasBadLine(body)]
          /\ UNCHANGED <<quotes, quote_items>>
     ELSE /\ quotes' = [quotes EXCEPT ![id].customer_id = body.customerId,
                                      ![id].distance = body.distance,
                                      ![id].notes = body.notes]
          /\ IF body.hasItems
             THEN quote_items' = InsertItems(DeleteItemsOf(quote_items, id), products,
                                             id, body.items)
             ELSE UNCHANGED quote_items
          /\ resp' = [op |-> "PUT /api/quotes/:id", org |-> org,
                      code |-> IF body.hasItems
                                  /\ FirstBad(products, body.items) <= Len(body.items)
                               THEN 500 ELSE 200,
                      id |-> id, badLine |-> HasBadLine(body)]
  /\ UNCHANGED <<customers, products, pricing_settings,
                 organizations, users, inflight>>

\* POST /api/quotes/:id/finalize
FinalizeQuote(org, id) ==
  /\ IF id \in DOMAIN quotes /\ quotes[id].organization_id = org
     THEN /\ quotes' = [quotes EXCEPT ![id].status = "sent"]
          /\ resp' = [op |-> "POST /api/quotes/:id/finalize", org |-> org, code |-> 200,
                      id |-> id, was |-> quotes[id].status]
     ELSE /\ resp' = [op |-> "POST /api/quotes/:id/finalize", org |-> org, code |-> 404,
                      id |-> id]
          /\ UNCHANGED quotes
  /\ UNCHANGED <<customers, products, quote_items, pricing_settings,
                 organizations, users, inflight>>

\* DELETE /api/quotes/:id
DeleteQuote(org, id) ==
  /\ quote_items' = DeleteItemsOf(quote_items, id)
  /\ IF id \in DOMAIN quotes /\ quotes[id].organization_id = org
     THEN /\ quotes' = Remove(quotes, {id})
          /\ resp' = [op |-> "DELETE /api/quotes/:id", org |-> org, code |-> 200, id |-> id]
     ELSE /\ resp' = [op |-> "DELETE /api/quotes/:id", org |-> org, code |-> 404, id |-> id]
          /\ UNCHANGED quotes
  /\ UNCHANGED <<customers, products, pricing_settings,
                 organizations, users, inflight>>

(***************************************************************************)
(* routes/customers.js                                                     *)
(***************************************************************************)
\* uuidv4(): an id no stored customer has
FreshCustomerIds == CustomerIds \ DOMAIN customers
NewCustomerId == CHOOSE id \in FreshCustomerIds : TRUE

\* the quotes whose customer_id is the given customer
QuotesOfCustomer(cid) == {q \in DOMAIN quotes : quotes[q].customer_id = cid}

\* POST /api/customers
PostCustomer(org, body) ==
  /\ FreshCustomerIds # {}
  /\ IF body.name = None
     THEN /\ resp' = [op |-> "POST /api/customers", org |-> org, code |-> 400]
          /\ UNCHANGED customers
     ELSE /\ customers' = Upsert(customers, NewCustomerId,
                                 CustomerRow(org, body.name, body.type))
          /\ resp' = [op |-> "POST /api/customers", org |-> org, code |-> 201,
                      id |-> NewCustomerId]
  /\ UNCHANGED <<products, quotes, quote_items, pricing_settings,
                 organizations, users, inflight>>

\* a customer delete under customer_id ... ON DELETE CASCADE: the quotes of the
\* customer and their lines go with it
DeleteCustomerCascading(org, id) ==
  /\ IF id \in DOMAIN customers /\ customers[id].organization_id = org
     THEN /\ customers' = Remove(customers, {id})
          /\ quotes' = Remove(quotes, QuotesOfCustomer(id))
          /\ quote_items' = SelectSeq(quote_items,
                                      LAMBDA r : r.quote_id \notin QuotesOfCustomer(id))
          /\ resp' = [op |-> "DELETE /api/customers/:id", org |-> org, code |-> 200,
                      id |-> id, referring |-> QuotesOfCustomer(id)]
     ELSE /\ resp' = [op |-> "DELETE /api/customers/:id", org |-> org, code |-> 404,
                      id |-> id, referring |-> {}]
          /\ UNCHANGED <<customers, quotes, quote_items>>
  /\ UNCHANGED <<products, pricing_settings,
                 organizations, users, inflight>>

\* DELETE /api/customers/:id.  quotes.customer_id is ON DELETE SET NULL: every
\* quote that refers to the deleted customer keeps its row with a NULL reference.
DeleteCustomer(org, id) ==
  /\ IF id \in DOMAIN customers /\ customers[id].organization_id = org
     THEN /\ customers' = Remove(customers, {id})
          /\ quotes' = [q \in DOMAIN quotes |->
                          IF quotes[q].customer_id = id
                          THEN [quotes[q] EXCEPT !.customer_id = None]
                          ELSE quotes[q]]
          /\ resp' = [op |-> "DELETE /api/customers/:id", org |-> org, code |-> 200,
                      id |-> id, referring |-> QuotesOfCustomer(id)]
     ELSE /\ resp' = [op |-> "DELETE /api/customers/:id", org |-> org, code |-> 404,
                      id |-> id, referring |-> {}]
          /\ UNCHANGED <<customers, quotes>>
  /\ UNCHANGED <<products, quote_items, pricing_settings,
                 organizations, users, inflight>>

(***************************************************************************)
(* routes/products.js                                                      *)
(***************************************************************************)
\* uuidv4(): an id no stored product has
FreshProductIds(prods) == ProductIds \ DOMAIN prods
NewProductId(prods) == CHOOSE id \in FreshProductIds(prods) : TRUE

\* product_id UUID NOT NULL REFERENCES products(id) ON DELETE RESTRICT
Referenced(pid) == \E i \in 1..Len(quote_items) : quote_items[i].product_id = pid

\* name VARCHAR(255) NOT NULL, cost_per_case DECIMAL(10, 2) NOT NULL
ProductStorable(b) == b.name # None /\ b.hasCost

\* POST /api/products
PostProduct(org, b) ==
  /\ FreshProductIds(products) # {}
  /\ IF b.name = None \/ ~b.hasCost \/ b.costPerCase = 0
     THEN /\ resp' = [op |-> "POST /api/products", org |-> org, code |-> 400]
          /\ UNCHANGED products
     ELSE /\ products' = Upsert(products, NewProductId(products), ProductRow(org, b))
          /\ resp' = [op |-> "POST /api/products", org |-> org, code |-> 201,
                      id |-> NewProductId(products)]
  /\ UNCHANGED <<customers, quotes, quote_items, pricing_settings,
                 organizations, users, inflight>>

\* a product update that also re-prices the lines quoting the product
PutProductRepricing(org, id, b) ==
  /\ IF ~(id \in DOMAIN products /\ products[id].organization_id = org)
     THEN /\ resp' = [op |-> "PUT /api/products/:id", org |-> org, code |-> 404, id |-> id]
          /\ UNCHANGED <<products, quote_items>>
     ELSE IF ~ProductStorable(b)
     THEN /\ resp' = [op |-> "PUT /api/products/:id", org |-> org, code |-> 500, id |-> id]
          /\ UNCHANGED <<products, quote_items>>
     ELSE /\ products' = [products EXCEPT ![id] = ProductRow(org, b)]
          /\ quote_items' = [i \in 1..Len(quote_items) |->
                               IF quote_items[i].product_id = id
                               THEN [quote_items[i] EXCEPT !.unit_cost = b.costPerCase]
                               ELSE quote_items[i]]
          /\ resp' = [op |-> "PUT /api/products/:id", org |-> org, code |-> 200, id |-> id]
  /\ UNCHANGED <<customers, quotes, pricing_settings,
                 organizations, users, inflight>>

\* PUT /api/products/:id
PutProduct(org, id, b) ==
  /\ IF ~(id \in DOMAIN products /\ products[id].organization_id = org)
     THEN /\ resp' = [op |-> "PUT /api/products/:id", org |-> org, code |-> 404, id |-> id]
          /\ UNCHANGED products
     ELSE IF ~ProductStorable(b)
     THEN /\ resp' = [op |-> "PUT /api/products/:id", org |-> org, code |-> 500, id |-> id]
          /\ UNCHANGED products
     ELSE /\ products' = [products EXCEPT ![id] = ProductRow(org, b)]
          /\ resp' = [op |-> "PUT /api/products/:id", org |-> org, code |-> 200, id |-> id]
  /\ UNCHANGED <<customers, quotes, quote_items, pricing_settings,
                 organizations, users, inflight>>

\* a product delete on a schema without the foreign key of quote_items
DeleteProductUnrestricted(org, id) ==
  /\ IF ~(id \in DOMAIN products /\ products[id].organization_id = org)
     THEN /\ resp' = [op |-> "DELETE /api/products/:id", org |-> org, code |-> 404,
                      id |-> id]
          /\ UNCHANGED products
     ELSE /\ products' = Remove(products, {id})
          /\ resp' = [op |-> "DELETE /api/products/:id", org |-> org, code |-> 200,
                      id |-> id]
  /\ UNCHANGED <<customers, quotes, quote_items, pricing_settings,
                 organizations, users, inflight>>

\* DELETE /api/products/:id
DeleteProduct(org, id) ==
  /\ IF ~(id \in DOMAIN products /\ products[id].organization_id = org)
     THEN /\ resp' = [op |-> "DELETE /api/products/:id", org |-> org, code |-> 404,
                      id |-> id]
          /\ UNCHANGED products
     ELSE IF Referenced(id)
     THEN \* ON DELETE RESTRICT: the DELETE throws
          /\ resp' = [op |-> "DELETE /api/products/:id", org |-> org, code |-> 500,
                      id |-> id]
          /\ UNCHANGED products
     ELSE /\ products' = Remove(products, {id})
          /\ resp' = [op |-> "DELETE /api/products/:id", org |-> org, code |-> 200,
                      id |-> id]
  /\ UNCHANGED <<customers, quotes, quote_items, pricing_settings,
                 organizations, users, inflight>>

\* SELECT id FROM products WHERE organization_id = $1 AND name = $2 AND farm = $3
\* (farm = NULL matches no row)
ExistingProducts(prods, org, b) ==
  {id \in DOMAIN prods :
     /\ prods[id].organization_id = org
     /\ b.name # None /\ prods[id].name = b.name
     /\ b.farm # None /\ prods[id].farm = b.farm}

\* UPDATE products SET unit_type = ..., cost_per_case = $3, ... WHERE id = $10
MergedRow(row, b) ==
  [row EXCEPT !.cases_per_pallet = b.casesPerPallet, !.cost_per_case = b.costPerCase,
              !.bipoc = b.bipoc, !.gap_certified = b.gapCertified]

\* one pass of the import loop over the first product of the list: the runs
\* it can end in (existing.rows[0] is any of the matching rows)
ImportOne(run, org, mode, b) ==
  IF ExistingProducts(run.products, org, b) # {} /\ mode = "merge"
  THEN IF ~b.hasCost
       THEN {[run EXCEPT !.errors = @ + 1]}
       ELSE {[run EXCEPT !.products[id] = MergedRow(@, b), !.updated = @ + 1] :
               id \in ExistingProducts(run.products, org, b)}
  ELSE IF ~ProductStorable(b)
       THEN {[run EXCEPT !.errors = @ + 1]}
       ELSE {[run EXCEPT !.products = Upsert(@, NewProductId(run.products),
                                             ProductRow(org, b)),
                         !.imported = @ + 1]}

RECURSIVE ImportLoop(_, _, _, _)
ImportLoop(runs, org, mode, list) ==
  IF list = <<>> THEN runs
  ELSE ImportLoop(UNION {ImportOne(r, org, mode, Head(list)) : r \in runs},
                  org, mode, Tail(list))

OwnProducts(org) == {id \in DOMAIN products : products[id].organization_id = org}

\* POST /api/products/import
ImportProducts(org, list, mode) ==
  /\ Len(list) <= Cardinality(FreshProductIds(products))
  /\ IF list = <<>>
     THEN /\ resp' = [op |-> "POST /api/products/import", org |-> org, code |-> 400,
                      list |-> list, mode |-> mode]
          /\ UNCHANGED products
     ELSE IF mode = "replace" /\ \E id \in OwnProducts(org) : Referenced(id)
     THEN \* DELETE FROM products WHERE organization_id = $1 throws (RESTRICT)
          /\ resp' = [op |-> "POST /api/products/import", org |-> org, code |-> 500,
                      list |-> list, mode |-> mode]
          /\ UNCHANGED products
     ELSE \E run \in ImportLoop(
                       {[products |-> IF mode = "replace"
                                      THEN Remove(products, OwnProducts(org))
                                      ELSE products,
                         imported |-> 0, updated |-> 0, errors |-> 0]},
                       org, mode, list) :
            /\ products' = run.products
            /\ resp' = [op |-> "POST /api/products/import", org |-> org, code |-> 200,
                        list |-> list, mode |-> mode,
                        imported |-> run.imported, updated |-> run.updated,
                        errors |-> run.errors]
  /\ UNCHANGED <<customers, quotes, quote_items, pricing_settings,
                 organizations, users, inflight>>

(***************************************************************************)
(* routes/settings.js.  A settings document is a JSON object; each field   *)
(* is a JSON value with its JavaScript type.  Currency is in cents, the    *)
(* per-mile rate in cents per mile.                                        *)
(***************************************************************************)
Num(n) == [type |-> "number", value |-> n]
Str(x) == [type |-> "string", value |-> x]
Arr(xs) == [type |-> "array", value |-> xs]
Undefined == [type |-> "undefined", value |-> None]

Tier(lo, hi, d) == [minCases |-> lo, maxCases |-> hi, discount |-> d]
Region(id, name, miles) == [id |-> id, name |-> name, distance |-> miles]

\* the tiers of every default document of the repository
DefaultTiers ==
  <<Tier(0, 50, 0), Tier(51, 150, 8), Tier(151, 300, 15), Tier(301, 9999, 22)>>

DefaultRates ==
  [baseFreightRate |-> Num(12500), perMileRate |-> Num(85),
   palletBreakSurcharge |-> Num(15), minFreight |-> Num(7500),
   marginFoodBank |-> Num(20), marginSchool |-> Num(15), marginCorporate |-> Num(25)]

SettingsDoc(rates, tiers, regions) ==
  [baseFreightRate |-> rates.baseFreightRate, perMileRate |-> rates.perMileRate,
   palletBreakSurcharge |-> rates.palletBreakSurcharge, minFreight |-> rates.minFreight,
   marginFoodBank |-> rates.marginFoodBank, marginSchool |-> rates.marginSchool,
   marginCorporate |-> rates.marginCorporate,
   volumeTiers |-> tiers, regions |-> regions]

\* getDefaultSettings() of routes/settings.js
getDefaultSettings ==
  SettingsDoc(DefaultRates, Arr(DefaultTiers),
              Arr(<<Region("east-bay", "East Bay", 25),
                    Region("sf", "San Francisco", 40),
                    Region("south-bay", "South Bay", 55),
                    Region("central-coast", "Central Coast", 120),
                    Region("sacramento", "Sacramento", 85),
                    Region("central-valley", "Central Valley", 150),
                    Region("socal", "Southern California", 400)>>))

\* the settings object the single-file server answers with when no row exists
InlineDefaultSettings ==
  SettingsDoc(DefaultRates, Undefined, Undefined)

\* typeof x !== 'number' || x < 0
BadRate(x) == x.type # "number" \/ x.value < 0

\* validateSettings(settings): the error message, None for null
validateSettings(settings) ==
  IF BadRate(settings.baseFreightRate)
    THEN "Base freight rate must be a non-negative number"
  ELSE IF BadRate(settings.perMileRate)
    THEN "Per-mile rate must be a non-negative number"
  ELSE IF BadRate(settings.palletBreakSurcharge)
    THEN "Pallet break surcharge must be a non-negative number"
  ELSE IF settings.volumeTiers.type # "array"
    THEN "Volume tiers must be an array"
  ELSE IF settings.regions.type # "array"
    THEN "Regions must be an array"
  ELSE None

\* SELECT settings FROM pricing_settings WHERE organization_id = $1
HasSettings(org) == org \in DOMAIN pricing_settings

\* x || []
OrEmpty(x) == IF x.type = "undefined" THEN Arr(<<>>) ELSE x

\* GET /api/settings
GetSettings(org) ==
  /\ resp' = [op |-> "GET /api/settings", org |-> org, server |-> "router",
              code |-> 200, fallback |-> ~HasSettings(org),
              settings |-> IF HasSettings(org) THEN pricing_settings[org]
                           ELSE getDefaultSettings]
  /\ UNCHANGED <<customers, products, quotes, quote_items, pricing_settings,
                 organizations, users, inflight>>

\* PUT /api/settings; body.present is whether req.body.settings is truthy
PutSettings(org, body) ==
  /\ IF ~body.present
     THEN /\ resp' = [op |-> "PUT /api/settings", org |-> org, server |-> "router",
                      code |-> 400, body |-> body]
          /\ UNCHANGED pricing_settings
     ELSE IF validateSettings(body.settings) # None
     THEN /\ resp' = [op |-> "PUT /api/settings", org |-> org, server |-> "router",
                      code |-> 400, body |-> body]
          /\ UNCHANGED pricing_settings
     ELSE /\ pricing_settings' = Upsert(pricing_settings, org, body.settings)
          /\ resp' = [op |-> "PUT /api/settings", org |-> org, server |-> "router",
                      code |-> 200, body |-> body]
  /\ UNCHANGED <<customers, products, quotes, quote_items,
                 organizations, users, inflight>>

\* GET /api/settings/regions
GetRegions(org) ==
  /\ resp' = [op |-> "GET /api/settings/regions", org |-> org, code |-> 200,
              fallback |-> ~HasSettings(org),
              regions |-> OrEmpty((IF HasSettings(org) THEN pricing_settings[org]
                                   ELSE getDefaultSettings).regions)]
  /\ UNCHANGED <<customers, products, quotes, quote_items, pricing_settings,
                 organizations, users, inflight>>

\* GET /api/settings/volume-tiers
GetVolumeTiers(org) ==
  /\ resp' = [op |-> "GET /api/settings/volume-tiers", org |-> org, code |-> 200,
              fallback |-> ~HasSettings(org),
              volumeTiers |-> OrEmpty((IF HasSettings(org) THEN pricing_settings[org]
                                       ELSE getDefaultSettings).volumeTiers)]
  /\ UNCHANGED <<customers, products, quotes, quote_items, pricing_settings,
                 organizations, users, inflight>>

\* POST /api/settings/reset
ResetSettings(org) ==
  /\ pricing_settings' = Upsert(pricing_settings, org, getDefaultSettings)
  /\ resp' = [op |-> "POST /api/settings/reset", org |-> org, code |-> 200,
              settings |-> getDefaultSettings]
  /\ UNCHANGED <<customers, products, quotes, quote_items,
                 organizations, users, inflight>>

(***************************************************************************)
(* The settings routes of the single-file server (app.get, app.put).       *)
(***************************************************************************)
\* app.get('/api/settings', requireAuth, ...)
AppGetSettings(org) ==
  /\ resp' = [op |-> "GET /api/settings", org |-> org, server |-> "app",
              code |-> 200, fallback |-> ~HasSettings(org),
              settings |-> IF HasSettings(org) THEN pricing_settings[org]
                           ELSE InlineDefaultSettings]
  /\ UNCHANGED <<customers, products, quotes, quote_items, pricing_settings,
                 organizations, users, inflight>>

\* app.put('/api/settings', requireAuth, ...): JSON.stringify(undefined) is
\* undefined, stored as NULL, which settings JSONB NOT NULL refuses
AppPutSettings(org, body) ==
  /\ IF ~body.present
     THEN /\ resp' = [op |-> "PUT /api/settings", org |-> org, server |-> "app",
                      code |-> 500, body |-> body]
          /\ UNCHANGED pricing_settings
     ELSE /\ pricing_settings' = Upsert(pricing_settings, org, body.settings)
          /\ resp' = [op |-> "PUT /api/settings", org |-> org, server |-> "app",
                      code |-> 200, body |-> body]
  /\ UNCHANGED <<customers, products, quotes, quote_items,
                 organizations, users, inflight>>

(***************************************************************************)
(* The volume-tier invariant of a tier list.                               *)
(***************************************************************************)
\* inclusive bounds: minCases <= cases <= maxCases
TierCovers(t, n) == t.minCases <= n /\ n <= t.maxCases

TiersCovering(tiers, n) == {i \in 1..Len(tiers) : TierCovers(tiers[i], n)}

\* The case counts at which a gap or an overlap of a tier list shows: a gap
\* starts at 0 or right after some tier's maxCases, an overlap holds the larger
\* minCases of the two tiers.  So every case count >= 0 lies in exactly one
\* tier exactly when each of these does.
CasePoints(tiers) ==
  {0} \cup {n \in UNION {{tiers[i].minCases, tiers[i].maxCases, tiers[i].maxCases + 1} :
                            i \in 1..Len(tiers)} : n >= 0}

VolumeTierInvariant(volumeTiers) ==
  /\ volumeTiers.type = "array"
  /\ LET tiers == volumeTiers.value
     IN /\ \A i \in 1..Len(tiers) : tiers[i].minCases <= tiers[i].maxCases
        /\ \A i, j \in 1..Len(tiers) : i < j => tiers[i].maxCases < tiers[j].minCases
        /\ \A n \in CasePoints(tiers) : Cardinality(TiersCovering(tiers, n)) = 1

(***************************************************************************)
(* middleware/auth.js as the single-file server defines it, and            *)
(* routes/auth.js                                                          *)
(***************************************************************************)
\* a JWT: its payload, the secret that signed it, and whether it has expired
Token(org, email, secret, expired) ==
  [organizationId |-> org, email |-> email, secret |-> secret, expired |-> expired]

\* generateToken(user): signed with JWT_SECRET, expiresIn '7d'
generateToken(email, user) ==
  Token(user.organization_id, email, "JWT_SECRET", FALSE)

\* jwt.verify(token, JWT_SECRET) returns the payload or throws
Verifies(token) == token.secret = "JWT_SECRET" /\ ~token.expired

\* an Authorization header: absent, or a scheme followed by a token
NoHeader == [present |-> FALSE, scheme |-> None, token |-> Token(None, None, None, FALSE)]
Header(scheme, token) == [present |-> TRUE, scheme |-> scheme, token |-> token]

\* requireAuth answering 403 Forbidden to a token that fails verification
requireAuthForbidding(header) ==
  IF ~header.present \/ header.scheme # "Bearer"
  THEN [next |-> FALSE, code |-> 401, error |-> "Authentication required",
        organizationId |-> None]
  ELSE IF ~Verifies(header.token)
  THEN [next |-> FALSE, code |-> 403, error |-> "Forbidden",
        organizationId |-> None]
  ELSE [next |-> TRUE, code |-> 0, error |-> None,
        organizationId |-> header.token.organizationId]

\* requireAuth(req, res, next): what it answers, or the user it hands to next()
requireAuth(header) ==
  IF ~header.present \/ header.scheme # "Bearer"
  THEN [next |-> FALSE, code |-> 401, error |-> "Authentication required",
        organizationId |-> None]
  ELSE IF ~Verifies(header.token)
  THEN [next |-> FALSE, code |-> 401, error |-> "Invalid token",
        organizationId |-> None]
  ELSE [next |-> TRUE, code |-> 0, error |-> None,
        organizationId |-> header.token.organizationId]

\* optionalAuth(req, res, next): req.user, null without a token that verifies;
\* next() is called in every case
optionalAuth(header) ==
  IF header.present /\ header.scheme = "Bearer" /\ Verifies(header.token)
  THEN header.token.organizationId
  ELSE None

\* email.toLowerCase()
toLowerCase(email) == IF email = "Pat@Farm.org" THEN "pat@farm.org" ELSE email

\* password.length
PasswordLength(password) ==
  CASE password = "short" -> 5
    [] password = "password123" -> 11
    [] password = "correct horse" -> 13
    [] OTHER -> 0

\* crypto.pbkdf2Sync(password, salt, 1000, 64, 'sha512'): the digest is a
\* function of the password and the salt, taken to be free of collisions
pbkdf2Sync(password, salt) == <<"sha512", password, salt>>

\* hashPassword(password), for the salt crypto.randomBytes(16) drew
hashPassword(password, salt) == [salt |-> salt, hash |-> pbkdf2Sync(password, salt)]

verifyPassword(password, storedHash) ==
  storedHash.hash = pbkdf2Sync(password, storedHash.salt)

\* getDefaultSettings() of routes/auth.js: the same rates and tiers, five regions
AuthDefaultSettings ==
  SettingsDoc(DefaultRates, Arr(DefaultTiers),
              Arr(<<Region("east-bay", "East Bay", 25),
                    Region("sf", "San Francisco", 40),
                    Region("south-bay", "South Bay", 55),
                    Region("central-coast", "Central Coast", 120),
                    Region("sacramento", "Sacramento", 85)>>))

\* the ids INSERT INTO organizations can return
OrgIds == Orgs \cup {"orgC", "orgD"}
FreshOrgIds == OrgIds \ organizations
Salts == {"s1", "s2"}

UserRow(org, passwordHash, name) ==
  [organization_id |-> org, password_hash |-> passwordHash, name |-> name,
   role |-> "admin"]

\* GET /api/health
Health ==
  /\ resp' = [op |-> "GET /api/health", org |-> None, code |-> 200]
  /\ UNCHANGED <<customers, products, quotes, quote_items, pricing_settings,
                 organizations, users, inflight>>

\* POST /api/auth/register
Register(body, salt) ==
  /\ FreshOrgIds # {}
  /\ LET op == "POST /api/auth/register"
         email == toLowerCase(body.email)
         org == CHOOSE o \in FreshOrgIds : TRUE
         user == UserRow(org, hashPassword(body.password, salt), body.name)
     IN IF body.email = None \/ body.password = None \/ body.name = None
        THEN /\ resp' = [op |-> op, org |-> None, code |-> 400]
             /\ UNCHANGED <<organizations, users, pricing_settings>>
        ELSE IF PasswordLength(body.password) < 8
        THEN /\ resp' = [op |-> op, org |-> None, code |-> 400]
             /\ UNCHANGED <<organizations, users, pricing_settings>>
        ELSE IF email \in DOMAIN users
        THEN /\ resp' = [op |-> op, org |-> None, code |-> 409]
             /\ UNCHANGED <<organizations, users, pricing_settings>>
        ELSE /\ organizations' = organizations \cup {org}
             /\ users' = Upsert(users, email, user)
             /\ pricing_settings' = Upsert(pricing_settings, org, AuthDefaultSettings)
             /\ resp' = [op |-> op, org |-> org, code |-> 201,
                         token |-> generateToken(email, user)]
  /\ UNCHANGED <<customers, products, quotes, quote_items, inflight>>

(***************************************************************************)
(* POST /api/auth/register statement by statement.  The handler awaits     *)
(* each query on the pool, outside any transaction, so the requests in     *)
(* flight interleave between their statements; inflight holds, for each,   *)
(* the statement it is to run next.  A statement may fail (fails), and the *)
(* INSERT INTO users fails when the email is taken: users.email is UNIQUE. *)
(***************************************************************************)
RequestIds == 1..MaxInflight

\* the validation and SELECT id FROM users WHERE email = $1
RegisterReceive(r, body, salt) ==
  /\ r \notin DOMAIN inflight
  /\ LET op == "POST /api/auth/register"
     IN IF body.email = None \/ body.password = None \/ body.name = None
           \/ PasswordLength(body.password) < 8
        THEN /\ resp' = [op |-> op, org |-> None, code |-> 400]
             /\ UNCHANGED inflight
        ELSE IF toLowerCase(body.email) \in DOMAIN users
        THEN /\ resp' = [op |-> op, org |-> None, code |-> 409]
             /\ UNCHANGED inflight
        ELSE /\ inflight' = Upsert(inflight, r,
                                   [pc |-> "INSERT INTO organizations",
                                    email |-> toLowerCase(body.email),
                                    user |-> UserRow(None, hashPassword(body.password, salt),
                                                     body.name)])
             /\ UNCHANGED resp
  /\ UNCHANGED <<customers, products, quotes, quote_items, pricing_settings,
                 organizations, users>>

\* INSERT INTO organizations (name) VALUES ($1) RETURNING id
RegisterInsertOrganization(r) ==
  /\ r \in DOMAIN inflight /\ inflight[r].pc = "INSERT INTO organizations"
  /\ FreshOrgIds # {}
  /\ LET org == CHOOSE o \in FreshOrgIds : TRUE
     IN /\ organizations' = organizations \cup {org}
        /\ inflight' = [inflight EXCEPT ![r].pc = "INSERT INTO users",
                                        ![r].user.organization_id = org]
  /\ UNCHANGED <<customers, products, quotes, quote_items, pricing_settings, users, resp>>

\* INSERT INTO users (...) VALUES ($1, $2, $3, $4, 'admin'); a throw is caught
\* and answered 500
RegisterInsertUser(r, fails) ==
  /\ r \in DOMAIN inflight /\ inflight[r].pc = "INSERT INTO users"
  /\ IF fails \/ inflight[r].email \in DOMAIN users
     THEN /\ resp' = [op |-> "POST /api/auth/register",
                      org |-> inflight[r].user.organization_id, code |-> 500]
          /\ inflight' = Remove(inflight, {r})
          /\ UNCHANGED users
     ELSE /\ users' = Upsert(users, inflight[r].email, inflight[r].user)
          /\ inflight' = [inflight EXCEPT ![r].pc = "INSERT INTO pricing_settings"]
          /\ UNCHANGED resp
  /\ UNCHANGED <<customers, products, quotes, quote_items, pricing_settings, organizations>>

\* INSERT INTO pricing_settings (organization_id, settings), then the 201
RegisterInsertSettings(r, fails) ==
  /\ r \in DOMAIN inflight /\ inflight[r].pc = "INSERT INTO pricing_settings"
  /\ LET org == inflight[r].user.organization_id
     IN IF fails
        THEN /\ resp' = [op |-> "POST /api/auth/register", org |-> org, code |-> 500]
             /\ UNCHANGED pricing_settings
        ELSE /\ pricing_settings' = Upsert(pricing_settings, org, AuthDefaultSettings)
             /\ resp' = [op |-> "POST /api/auth/register", org |-> org, code |-> 201,
                         token |-> generateToken(inflight[r].email, inflight[r].user)]
  /\ inflight' = Remove(inflight, {r})
  /\ UNCHANGED <<customers, products, quotes, quote_items, organizations, users>>

\* a password that arrives as the JSON number 12345678, not as a string
NumberPassword == "12345678 (number)"

\* typeof password
typeof(password) == IF password = NumberPassword THEN "number" ELSE "string"

\* crypto.pbkdf2Sync(password, ...) inside verifyPassword throws a TypeError
\* when the password is neither a string nor a buffer
verifyPasswordThrows(password) == typeof(password) # "string"

\* the body res.json sends with a login answer
LoginReply(body, org, code, error) ==
  [op |-> "POST /api/auth/login", org |-> org, code |-> code, error |-> error,
   email |-> body.email, password |-> body.password]

\* POST /api/auth/login
Login(body) ==
  /\ LET email == toLowerCase(body.email)
     IN IF body.email = None \/ body.password = None
        THEN resp' = LoginReply(body, None, 400, "Email and password are required")
        ELSE IF email \notin DOMAIN users
        THEN resp' = LoginReply(body, None, 401, "Invalid email or password")
        ELSE IF verifyPasswordThrows(body.password)
        THEN resp' = LoginReply(body, None, 500, "Login failed")
        ELSE IF ~verifyPassword(body.password, users[email].password_hash)
        THEN resp' = LoginReply(body, None, 401, "Invalid email or password")
        ELSE resp' = LoginReply(body, users[email].organization_id, 200, None)
                       @@ [token |-> generateToken(email, users[email])]
  /\ UNCHANGED <<customers, products, quotes, quote_items, pricing_settings,
                 organizations, users, inflight>>

\* req.user.organizationId, as requireAuth sets it from the token
organizationId(header) == requireAuth(header).organizationId

\* router.use(requireAuth) in front of a route handler: the handler runs only
\* when requireAuth calls next(); the middleware's own answer is the same for
\* every route
Protected(header, handler) ==
  IF requireAuth(header).next
  THEN handler
  ELSE /\ resp' = [op |-> "requireAuth", org |-> None, code |-> requireAuth(header).code,
                   error |-> requireAuth(header).error]
       /\ UNCHANGED <<customers, products, quotes, quote_items, pricing_settings,
                      organizations, users, inflight>>

(***************************************************************************)
(* PUT /api/quotes/:id statement by statement.  As in the registration,    *)
(* each query is awaited on the pool outside any transaction.  A request   *)
(* that has answered stays in inflight with its status code, so that what  *)
(* is stored can be compared with what the requests sent.                  *)
(***************************************************************************)
\* SELECT id FROM quotes WHERE id = $1 AND organization_id = $2
PutReceive(r, org, id, body) ==
  /\ r \notin DOMAIN inflight
  /\ IF ~(id \in DOMAIN quotes /\ quotes[id].organization_id = org)
     THEN /\ resp' = [op |-> "PUT /api/quotes/:id", org |-> org, code |-> 404, id |-> id,
                      badLine |-> HasBadLine(body)]
          /\ inflight' = Upsert(inflight, r, [pc |-> "answered", org |-> org, id |-> id,
                                              body |-> body, next |-> 1, code |-> 404])
     ELSE /\ inflight' = Upsert(inflight, r, [pc |-> "UPDATE quotes", org |-> org, id |-> id,
                                              body |-> body, next |-> 1, code |-> 0])
          /\ UNCHANGED resp
  /\ UNCHANGED <<customers, products, quotes, quote_items, pricing_settings,
                 organizations, users>>

\* the answer of request r
PutAnswer(r, code) ==
  /\ resp' = [op |-> "PUT /api/quotes/:id", org |-> inflight[r].org, code |-> code,
              id |-> inflight[r].id, badLine |-> HasBadLine(inflight[r].body)]
  /\ inflight' = [inflight EXCEPT ![r].pc = "answered", ![r].code = code]

\* UPDATE quotes SET customer_id = $1, distance = $2, notes = $3 WHERE id = $4;
\* without an items field the request is answered here
PutUpdate(r) ==
  /\ r \in DOMAIN inflight /\ inflight[r].pc = "UPDATE quotes"
  /\ LET id == inflight[r].id
         body == inflight[r].body
     IN IF ~CustomerRefOk(body.customerId)
        THEN PutAnswer(r, 500) /\ UNCHANGED quotes
        ELSE /\ quotes' = IF id \in DOMAIN quotes
                          THEN [quotes EXCEPT ![id].customer_id = body.customerId,
                                              ![id].distance = body.distance,
                                              ![id].notes = body.notes]
                          ELSE quotes
             /\ IF body.hasItems
                THEN /\ inflight' = [inflight EXCEPT ![r].pc = "DELETE FROM quote_items"]
                     /\ UNCHANGED resp
                ELSE PutAnswer(r, 200)
  /\ UNCHANGED <<customers, products, quote_items, pricing_settings, organizations, users>>

\* DELETE FROM quote_items WHERE quote_id = $1; with an empty items array the
\* request is answered here
PutDeleteItems(r) ==
  /\ r \in DOMAIN inflight /\ inflight[r].pc = "DELETE FROM quote_items"
  /\ quote_items' = DeleteItemsOf(quote_items, inflight[r].id)
  /\ IF Len(inflight[r].body.items) = 0
     THEN PutAnswer(r, 200)
     ELSE /\ inflight' = [inflight EXCEPT ![r].pc = "INSERT INTO quote_items"]
          /\ UNCHANGED resp
  /\ UNCHANGED <<customers, products, quotes, pricing_settings, organizations, users>>

\* one INSERT INTO quote_items of the loop; a throw is answered 500, the last
\* line's insert is followed by the 200
PutInsertItem(r) ==
  /\ r \in DOMAIN inflight /\ inflight[r].pc = "INSERT INTO quote_items"
  /\ LET id == inflight[r].id
         items == inflight[r].body.items
         k == inflight[r].next
     IN IF ~ItemInsertable(products, items[k]) \/ id \notin DOMAIN quotes
        THEN PutAnswer(r, 500) /\ UNCHANGED quote_items
        ELSE /\ quote_items' = Append(quote_items, ItemRow(id, items[k]))
             /\ IF k = Len(items)
                THEN PutAnswer(r, 200)
                ELSE /\ inflight' = [inflight EXCEPT ![r].next = k + 1]
                     /\ UNCHANGED resp
  /\ UNCHANGED <<customers, products, quotes, pricing_settings, organizations, users>>

(***************************************************************************)
(* routes/ai.js                                                            *)
(***************************************************************************)
\* i.cases || 0, i.lineTotal || 0 for a number or a missing value
OrZero(v) == IF v.type = "number" THEN v.value ELSE 0

\* Math.round(x / y * 100) for x >= 0, y > 0
RoundPercent(x, y) == (200 * x + y) \div (2 * y)

\* the figures buildSystemPrompt computes from a non-empty items array
QuoteTotals(items) ==
  LET bipocCount == Cardinality({i \in 1..Len(items) : items[i].bipoc})
  IN [totalCases |-> SumSeq([i \in 1..Len(items) |-> OrZero(items[i].cases)]),
      totalValue |-> SumSeq([i \in 1..Len(items) |-> OrZero(items[i].lineTotal)]),
      bipocCount |-> bipocCount,
      lines |-> Len(items),
      bipocPercent |-> RoundPercent(bipocCount, Len(items))]

\* buildSystemPrompt(context): the parts of the prompt that depend on the
\* context.  totals holds the "Total Cases / Total Value / BIPOC Items" lines,
\* which are written only under context.quote.items && items.length > 0.
buildSystemPrompt(context) ==
  LET withQuote == context.present /\ context.hasQuote
      withItems == withQuote /\ context.quote.hasItems /\ Len(context.quote.items) > 0
  IN [quoteSection |-> withQuote,
      totals |-> IF withItems THEN <<QuoteTotals(context.quote.items)>> ELSE <<>>,
      lineItems |-> IF withItems THEN Len(context.quote.items) ELSE 0,
      settingsSection |-> context.present /\ context.hasSettings]

\* what anthropic.messages.create does: answers, or throws with a status
UpstreamOutcomes == {"answer", "status 401", "status 429", "failure"}

\* what a response records of the request: whether a quote came with it, and
\* the quote's items (none when the quote has no items field)
Asked(context) ==
  [quote |-> context.present /\ context.hasQuote,
   items |-> IF context.present /\ context.hasQuote /\ context.quote.hasItems
             THEN context.quote.items ELSE <<>>]

\* the answer of a route that built the prompt and called the upstream API
AiAnswer(op, header, status, context) ==
  [op |-> op, org |-> optionalAuth(header), code |-> status, called |-> TRUE,
   calls |-> 1,
   asked |-> Asked(context), totals |-> buildSystemPrompt(context).totals]

\* the answer of a route that returned before building the prompt
AiRefusal(op, header, status, context) ==
  [op |-> op, org |-> optionalAuth(header), code |-> status, called |-> FALSE,
   calls |-> 0,
   asked |-> Asked(context), totals |-> <<>>]

\* a content block of the upstream answer
TextBlock(text) == [type |-> "text", text |-> text]
ToolUseBlock == [type |-> "tool_use", text |-> None]

\* xs.join('\n'): the strings with a newline between neighbours, as the
\* sequence of the pieces of the joined string
RECURSIVE join(_)
join(xs) ==
  IF Len(xs) = 0 THEN <<>>
  ELSE IF Len(xs) = 1 THEN xs
  ELSE <<Head(xs), "\n">> \o join(Tail(xs))

\* response.content.filter(block => block.type === 'text').map(block => block.text)
textsOf(content) ==
  LET IsText(block) == block.type = "text"
      blocks == SelectSeq(content, IsText)
  IN  [i \in 1..Len(blocks) |-> blocks[i].text]

\* what the chat route sends: the error message, or the joined text; request
\* records what the route was given
ChatReply(request, answer, error, response) ==
  [request |-> request, op |-> answer.op, org |-> answer.org, code |-> answer.code,
   called |-> answer.called,
   calls |-> answer.calls, asked |-> answer.asked, totals |-> answer.totals,
   error |-> error, response |-> response]

\* a chat route that calls the upstream API a second time after a 429
AiChatRetrying(header, body, configured, upstream, content) ==
  /\ LET op == "POST /api/ai/chat"
         request == [message |-> body.message, configured |-> configured,
                     upstream |-> upstream, content |-> content]
     IN IF body.message.type # "string" \/ body.message.value = ""
        THEN resp' = ChatReply(request, AiRefusal(op, header, 400, body.context),
                               "Message is required", <<>>)
        ELSE IF ~configured
        THEN resp' = ChatReply(request, AiRefusal(op, header, 503, body.context),
                               "AI service not configured. Please set ANTHROPIC_API_KEY.",
                               <<>>)
        ELSE IF upstream = "answer"
        THEN resp' = ChatReply(request, AiAnswer(op, header, 200, body.context), None,
                               join(textsOf(content)))
        ELSE IF upstream = "status 401"
        THEN resp' = ChatReply(request, AiAnswer(op, header, 503, body.context),
                               "AI service authentication failed", <<>>)
        ELSE IF upstream = "status 429"
        THEN resp' = ChatReply(request,
                               [AiAnswer(op, header, 429, body.context) EXCEPT !.calls = 2],
                               "AI rate limit exceeded. Please try again later.", <<>>)
        ELSE resp' = ChatReply(request, AiAnswer(op, header, 500, body.context),
                               "Failed to get AI response", <<>>)
  /\ UNCHANGED <<customers, products, quotes, quote_items, pricing_settings,
                 organizations, users, inflight>>

\* POST /api/ai/chat; configured is whether ANTHROPIC_API_KEY is set, upstream
\* what anthropic.messages.create does and content the blocks of its answer
AiChat(header, body, configured, upstream, content) ==
  /\ LET op == "POST /api/ai/chat"
         request == [message |-> body.message, configured |-> configured,
                     upstream |-> upstream, content |-> content]
     IN IF body.message.type # "string" \/ body.message.value = ""
        THEN resp' = ChatReply(request, AiRefusal(op, header, 400, body.context),
                               "Message is required", <<>>)
        ELSE IF ~configured
        THEN resp' = ChatReply(request, AiRefusal(op, header, 503, body.context),
                               "AI service not configured. Please set ANTHROPIC_API_KEY.",
                               <<>>)
        ELSE IF upstream = "answer"
        THEN resp' = ChatReply(request, AiAnswer(op, header, 200, body.context), None,
                               join(textsOf(content)))
        ELSE IF upstream = "status 401"
        THEN resp' = ChatReply(request, AiAnswer(op, header, 503, body.context),
                               "AI service authentication failed", <<>>)
        ELSE IF upstream = "status 429"
        THEN resp' = ChatReply(request, AiAnswer(op, header, 429, body.context),
                               "AI rate limit exceeded. Please try again later.", <<>>)
        ELSE resp' = ChatReply(request, AiAnswer(op, header, 500, body.context),
                               "Failed to get AI response", <<>>)
  /\ UNCHANGED <<customers, products, quotes, quote_items, pricing_settings,
                 organizations, users, inflight>>

\* an analyze-quote that also files the quote it was given
AiAnalyzeQuoteSaving(header, body, upstream) ==
  /\ LET op == "POST /api/ai/analyze-quote"
         context == [present |-> TRUE, hasQuote |-> body.hasQuote, quote |-> body.quote,
                     hasSettings |-> body.hasSettings]
     IN IF ~body.hasQuote \/ ~body.quote.hasItems \/ Len(body.quote.items) = 0
        THEN /\ resp' = AiRefusal(op, header, 400, context)
             /\ UNCHANGED quotes
        ELSE /\ resp' = AiAnswer(op, header, IF upstream = "answer" THEN 200 ELSE 500,
                                 context)
             /\ quotes' = [q \in DOMAIN quotes |->
                             [quotes[q] EXCEPT !.distance = body.quote.distance + 1]]
  /\ UNCHANGED <<customers, products, quote_items, pricing_settings,
                 organizations, users, inflight>>

\* POST /api/ai/analyze-quote
AiAnalyzeQuote(header, body, upstream) ==
  /\ LET op == "POST /api/ai/analyze-quote"
         context == [present |-> TRUE, hasQuote |-> body.hasQuote, quote |-> body.quote,
                     hasSettings |-> body.hasSettings]
     IN IF ~body.hasQuote \/ ~body.quote.hasItems \/ Len(body.quote.items) = 0
        THEN resp' = AiRefusal(op, header, 400, context)
        ELSE resp' = AiAnswer(op, header, IF upstream = "answer" THEN 200 ELSE 500,
                              context)
  /\ UNCHANGED <<customers, products, quotes, quote_items, pricing_settings,
                 organizations, users, inflight>>

\* POST /api/ai/suggest-margin: its prompt is built from the body's fields
AiSuggestMargin(header, body, upstream) ==
  /\ resp' = [op |-> "POST /api/ai/suggest-margin", org |-> optionalAuth(header),
              code |-> IF upstream = "answer" THEN 200 ELSE 500, called |-> TRUE]
  /\ UNCHANGED <<customers, products, quotes, quote_items, pricing_settings,
                 organizations, users, inflight>>

(***************************************************************************)
(* The database before the first request: seed.sql's kind of rows for two  *)
(* tenants (registration gives every tenant its own organization).         *)
(***************************************************************************)
SeedCustomers ==
  ("c1" :> CustomerRow("orgA", "Alameda Food Bank", "Food Bank"))
  @@ ("c2" :> CustomerRow("orgB", "SFUSD Nutrition Services", "School District"))

GalaApples ==
  [name |-> "Apples, Gala", farm |-> "Sambado and Sons", casesPerPallet |-> 49,
   hasCost |-> TRUE, costPerCase |-> 2695, bipoc |-> FALSE, gapCertified |-> TRUE]

Mandarins ==
  [name |-> "Mandarins", farm |-> "Royal Blue Farms", casesPerPallet |-> 25,
   hasCost |-> TRUE, costPerCase |-> 2550, bipoc |-> TRUE, gapCertified |-> TRUE]

SeedProducts ==
  ("p1" :> ProductRow("orgA", GalaApples)) @@ ("p2" :> ProductRow("orgB", Mandarins))

NoRows == [k \in {} |-> None]

\* one registered user for each tenant, the first with seed.sql's address
SeedUsers ==
  ("admin@sabagrocers.org" :> UserRow("orgA", hashPassword("password123", "s1"), "Cameron"))
  @@ ("ops@sfusd.edu" :> UserRow("orgB", hashPassword("correct horse", "s2"), "Dana"))

(***************************************************************************)
(* Request bodies.                                                         *)
(***************************************************************************)
\* one line of a quote body, priced by the client as in the worked example
Line(p, cases10, margin) ==
  [productId |-> p, cases10 |-> cases10, marginPercent |-> margin,
   unitCost |-> 2695, freightCost |-> 43908, lineTotal |-> 367308]

\* lines a client may send: a sound one per product, and lines with 0 cases,
\* 1.5 cases and a margin of 150 percent
ItemBodies ==
  {Line("p1", 1000, 20), Line("p2", 1000, 20), Line("p1", 0, 20),
   Line("p1", 15, 20), Line("p1", 1000, 150)}

SeqsUpTo(S, n) == UNION {[1..k -> S] : k \in 0..n}

QuoteBody(c, d, st, has, items) ==
  [customerId |-> c, distance |-> d, notes |-> None, status |-> st,
   hasItems |-> has, items |-> items]

\* bodies of POST /api/quotes and PUT /api/quotes/:id
QuoteBodies ==
  {QuoteBody(c, 40, None, has, items) :
     c \in CustomerIds \cup {None}, has \in BOOLEAN,
     items \in SeqsUpTo(ItemBodies, MaxItems)}

Init ==
  /\ customers = SeedCustomers
  /\ products = SeedProducts
  /\ quotes = NoRows
  /\ quote_items = <<>>
  /\ pricing_settings = NoRows
  /\ organizations = Orgs
  /\ inflight = <<>>
  /\ users = SeedUsers
  /\ resp = [op |-> "none", org |-> None, code |-> 0]

Next ==
  \/ \E org \in Orgs, body \in {b \in QuoteBodies : b.hasItems} : PostQuote(org, body)
  \/ \E org \in Orgs, id \in QuoteIds, body \in QuoteBodies : PutQuote(org, id, body)
  \/ \E org \in Orgs, id \in QuoteIds : FinalizeQuote(org, id)
  \/ \E org \in Orgs, id \in QuoteIds : DeleteQuote(org, id)
  \/ \E org \in Orgs, id \in QuoteIds : GetQuote(org, id)
  \/ \E org \in Orgs : ListQuotes(org, None, None)

Spec == Init /\ [][Next]_vars

(***************************************************************************)
(* The quote life cycle: a database that already holds a quote in one of   *)
(* the statuses the schema documents, and the routes that write status.    *)
(***************************************************************************)
StoredQuote(org, st) ==
  [organization_id |-> org, customer_id |-> None, distance |-> 40, notes |-> None,
   status |-> st]

InitStatus ==
  /\ customers = SeedCustomers
  /\ products = SeedProducts
  /\ quotes \in {NoRows} \cup {(1 :> StoredQuote(org, st)) : org \in Orgs, st \in Statuses}
  /\ quote_items = <<>>
  /\ pricing_settings = NoRows
  /\ organizations = Orgs
  /\ inflight = <<>>
  /\ users = SeedUsers
  /\ resp = [op |-> "none", org |-> None, code |-> 0]

\* POST bodies that name a status, which the route does not read
StatusBodies ==
  {QuoteBody(None, 40, st, TRUE, items) :
     st \in {None, "sent", "accepted", "void"},
     items \in SeqsUpTo({Line("p1", 1000, 20)}, MaxItems)}

\* a PUT body that names a status and carries no items
StatusUpdate == QuoteBody("c1", 25, "accepted", FALSE, <<>>)

NextStatus ==
  \/ \E org \in Orgs, body \in StatusBodies : PostQuote(org, body)
  \/ \E org \in Orgs, id \in QuoteIds : PutQuote(org, id, StatusUpdate)
  \/ \E org \in Orgs, id \in QuoteIds : FinalizeQuote(org, id)

SpecStatus == InitStatus /\ [][NextStatus]_vars

(***************************************************************************)
(* Price snapshots: one tenant's quotes and its product catalogue.         *)
(***************************************************************************)
DearerApples ==
  [GalaApples EXCEPT !.costPerCase = 3000, !.bipoc = TRUE]

UnpricedApples ==
  [GalaApples EXCEPT !.hasCost = FALSE, !.costPerCase = 0]

ProductBodies == {GalaApples, DearerApples, UnpricedApples}

SnapshotBodies ==
  {QuoteBody(None, 40, None, TRUE, items) :
     items \in SeqsUpTo({Line("p1", 1000, 20)}, MaxItems)}

NextSnapshot ==
  \/ \E body \in SnapshotBodies : PostQuote("orgA", body)
  \/ \E id \in QuoteIds : FinalizeQuote("orgA", id)
  \/ \E id \in QuoteIds : GetQuote("orgA", id)
  \/ \E b \in ProductBodies : PostProduct("orgA", b)
  \/ \E id \in ProductIds, b \in ProductBodies : PutProduct("orgA", id, b)
  \/ \E id \in ProductIds : DeleteProduct("orgA", id)
  \/ \E list \in SeqsUpTo(ProductBodies, MaxImport), mode \in {"merge", "replace"} :
       ImportProducts("orgA", list, mode)

SpecSnapshot == Init /\ [][NextSnapshot]_vars

(***************************************************************************)
(* Pricing settings: orgA has the seeded row, orgB (registered through the *)
(* single-file server, which writes no settings) has none.                 *)
(***************************************************************************)
WithRates(doc, field, x) ==
  CASE field = "baseFreightRate" -> [doc EXCEPT !.baseFreightRate = x]
    [] field = "perMileRate" -> [doc EXCEPT !.perMileRate = x]
    [] field = "palletBreakSurcharge" -> [doc EXCEPT !.palletBreakSurcharge = x]
    [] field = "minFreight" -> [doc EXCEPT !.minFreight = x]

WithTiers(doc, tiers) == [doc EXCEPT !.volumeTiers = tiers]

\* documents a client may send
SettingsDocs ==
  {getDefaultSettings,
   WithRates(getDefaultSettings, "baseFreightRate", Num(0 - 12500)),
   WithRates(getDefaultSettings, "perMileRate", Str("0.85")),
   WithRates(getDefaultSettings, "palletBreakSurcharge", Undefined),
   WithRates(getDefaultSettings, "minFreight", Num(0 - 7500)),
   WithRates(getDefaultSettings, "minFreight", Str("75")),
   WithTiers(getDefaultSettings, Undefined),
   [getDefaultSettings EXCEPT !.regions = Str("sf")],
   WithTiers(getDefaultSettings, Arr(<<Tier(0, 50, 0), Tier(60, 9999, 8)>>)),
   WithTiers(getDefaultSettings, Arr(<<Tier(0, 50, 0), Tier(51, 40, 8)>>)),
   WithTiers(getDefaultSettings, Arr(<<Tier(0, 50, 0), Tier(50, 9999, 8)>>)),
   WithTiers(getDefaultSettings, Arr(<<>>))}

\* bodies of PUT /api/settings: with a settings object, or without one
SettingsBodies ==
  {[present |-> TRUE, settings |-> d] : d \in SettingsDocs}
    \cup {[present |-> FALSE, settings |-> SettingsDoc(
             [baseFreightRate |-> Undefined, perMileRate |-> Undefined,
              palletBreakSurcharge |-> Undefined, minFreight |-> Undefined,
              marginFoodBank |-> Undefined, marginSchool |-> Undefined,
              marginCorporate |-> Undefined], Undefined, Undefined)]}

InitSettings ==
  /\ customers = SeedCustomers
  /\ products = SeedProducts
  /\ quotes = NoRows
  /\ quote_items = <<>>
  /\ pricing_settings = ("orgA" :> getDefaultSettings)
  /\ organizations = Orgs
  /\ inflight = <<>>
  /\ users = SeedUsers
  /\ resp = [op |-> "none", org |-> None, code |-> 0]

NextSettings ==
  \/ \E org \in Orgs : GetSettings(org)
  \/ \E org \in Orgs, body \in SettingsBodies : PutSettings(org, body)
  \/ \E org \in Orgs : GetRegions(org)
  \/ \E org \in Orgs : GetVolumeTiers(org)
  \/ \E org \in Orgs : ResetSettings(org)
  \/ \E org \in Orgs : AppGetSettings(org)
  \/ \E org \in Orgs, body \in SettingsBodies : AppPutSettings(org, body)

SpecSettings == InitSettings /\ [][NextSettings]_vars

(***************************************************************************)
(* Customers and the quotes that refer to them.                            *)
(***************************************************************************)
CustomerBodies ==
  {[name |-> "Berkeley Food Network", type |-> "Food Bank"],
   [name |-> None, type |-> "School District"]}

\* quotes for a customer or for none, with as many lines as a body may carry
CustomerQuoteBodies ==
  {QuoteBody(c, 40, None, TRUE, items) :
     c \in CustomerIds \cup {None},
     items \in SeqsUpTo({Line("p1", 1000, 20)}, MaxItems)}

NextCustomers ==
  \/ \E org \in Orgs, body \in CustomerBodies : PostCustomer(org, body)
  \/ \E org \in Orgs, id \in CustomerIds : DeleteCustomer(org, id)
  \/ \E org \in Orgs, body \in CustomerQuoteBodies : PostQuote(org, body)
  \/ \E org \in Orgs, id \in QuoteIds : GetQuote(org, id)

SpecCustomers == Init /\ [][NextCustomers]_vars

(***************************************************************************)
(* Merge imports into an empty catalogue: lists of up to two products,     *)
(* with and without a farm, imported by either tenant.                     *)
(***************************************************************************)
FarmlessApples == [GalaApples EXCEPT !.farm = None]

ImportLists == SeqsUpTo({GalaApples, DearerApples, FarmlessApples}, MaxImport + 1)

InitImport ==
  /\ customers = SeedCustomers
  /\ products = NoRows
  /\ quotes = NoRows
  /\ quote_items = <<>>
  /\ pricing_settings = NoRows
  /\ organizations = Orgs
  /\ users = SeedUsers
  /\ inflight = <<>>
  /\ resp = [op |-> None, org |-> None, code |-> 0]

NextImport ==
  \E org \in Orgs, list \in ImportLists : ImportProducts(org, list, "merge")

SpecImport == InitImport /\ [][NextImport]_vars

(***************************************************************************)
(* References between the tables: quotes with lines, next to the routes    *)
(* that delete quotes, products and customers.                             *)
(***************************************************************************)
\* quotes of customer c1 with a line for a seeded product, a line for a
\* product id that is stored only once a product was added, or no line
IntegrityBodies ==
  {QuoteBody("c1", 40, None, TRUE, items) :
     items \in {<<Line("p1", 1000, 20)>>, <<Line("p3", 1000, 20)>>, <<>>}}

NextIntegrity ==
  \/ \E body \in IntegrityBodies : PostQuote("orgA", body)
  \/ \E id \in QuoteIds, body \in IntegrityBodies : PutQuote("orgA", id, body)
  \/ \E org \in Orgs, id \in QuoteIds : DeleteQuote(org, id)
  \/ PostProduct("orgA", GalaApples)
  \/ \E id \in ProductIds : DeleteProduct("orgA", id)
  \/ \E list \in SeqsUpTo({GalaApples}, MaxImport), mode \in {"merge", "replace"} :
       ImportProducts("orgA", list, mode)
  \/ DeleteCustomer("orgA", "c1")

SpecIntegrity == Init /\ [][NextIntegrity]_vars

(***************************************************************************)
(* The HTTP surface: every request carries an Authorization header, or     *)
(* none, and passes the middleware its route is mounted behind.            *)
(***************************************************************************)
\* longest items array of a quote handed to the AI routes
MaxContextItems == 2
MaxBlocks == 3

AdminToken == Token("orgA", "admin@sabagrocers.org", "JWT_SECRET", FALSE)

\* no header, another scheme, a token that verifies, a token signed with
\* another secret
Headers ==
  {NoHeader,
   Header("Basic", AdminToken),
   Header("Bearer", AdminToken),
   Header("Bearer", Token("orgB", "ops@sfusd.edu", "guessed", FALSE))}

ValidBearer(header) ==
  header.present /\ header.scheme = "Bearer" /\ Verifies(header.token)

OneLineQuote == QuoteBody(None, 40, None, TRUE, <<Line("p1", 1000, 20)>>)

RegisterBodies ==
  {[email |-> "Pat@Farm.org", password |-> "password123", name |-> "Pat"],
   [email |-> "Pat@Farm.org", password |-> "short", name |-> "Pat"],
   [email |-> "admin@sabagrocers.org", password |-> "password123", name |-> "Cameron"],
   [email |-> None, password |-> "password123", name |-> "Pat"]}

LoginBodies ==
  {[email |-> "admin@sabagrocers.org", password |-> "password123"],
   [email |-> "admin@sabagrocers.org", password |-> "short"],
   [email |-> "Pat@Farm.org", password |-> "password123"],
   [email |-> "pat@farm.org", password |-> None]}

\* a line of a quote as the client holds it
ContextItem(cases, lineTotal, bipoc) ==
  [cases |-> cases, lineTotal |-> lineTotal, bipoc |-> bipoc]

ContextItems ==
  {ContextItem(Num(100), Num(367308), FALSE),
   ContextItem(Num(30), Num(90000), TRUE),
   ContextItem(Undefined, Undefined, TRUE)}

ContextQuote(has, items) ==
  [customerName |-> "Alameda Food Bank", distance |-> 40, hasItems |-> has,
   items |-> items]

\* the quotes a client may hand over: without an items field, or with a list
ContextQuotes ==
  {ContextQuote(FALSE, <<>>)}
    \cup {ContextQuote(TRUE, items) : items \in SeqsUpTo(ContextItems, MaxContextItems)}

NoContext ==
  [present |-> FALSE, hasQuote |-> FALSE, quote |-> ContextQuote(FALSE, <<>>),
   hasSettings |-> FALSE]

\* a question without a context
PlainQuestion == [message |-> Str("What margin should I use?"), context |-> NoContext]

\* a question with or without a context, and bodies without a usable message
ChatBodies ==
  {PlainQuestion}
    \cup {[message |-> Str("What margin should I use?"),
           context |-> [present |-> TRUE, hasQuote |-> TRUE, quote |-> q,
                        hasSettings |-> Len(q.items) = 1]] : q \in ContextQuotes}
    \cup {[message |-> m, context |-> NoContext] : m \in {Str(""), Undefined, Num(5)}}

\* answers of the upstream API: up to MaxBlocks blocks of text and tool use
OneTextBlock == <<TextBlock("Use a margin of 20%.")>>
ContentBlocks == {TextBlock("Use a margin of 20%."), TextBlock("Volume is low."), ToolUseBlock}
Contents == SeqsUpTo(ContentBlocks, MaxBlocks)

\* a quote of one line with the settings
FullAnalysis ==
  [hasQuote |-> TRUE,
   quote |-> ContextQuote(TRUE, <<ContextItem(Num(100), Num(367308), FALSE)>>),
   hasSettings |-> TRUE]

AnalyzeBodies ==
  {[hasQuote |-> FALSE, quote |-> ContextQuote(FALSE, <<>>), hasSettings |-> FALSE],
   FullAnalysis}
    \cup {[hasQuote |-> TRUE, quote |-> q, hasSettings |-> FALSE] : q \in ContextQuotes}

SuggestBodies == {[customerType |-> "Food Bank", totalCases |-> 100]}

\* the routes mounted behind requireAuth
ProtectedRequest(header) ==
  \/ Protected(header, ListQuotes(organizationId(header), None, None))
  \/ \E id \in QuoteIds :
       Protected(header, GetQuote(organizationId(header), id))
  \/ Protected(header, PostQuote(organizationId(header), OneLineQuote))
  \/ \E id \in QuoteIds :
       Protected(header, PutQuote(organizationId(header), id, OneLineQuote))
  \/ \E id \in QuoteIds :
       Protected(header, FinalizeQuote(organizationId(header), id))
  \/ \E id \in QuoteIds :
       Protected(header, DeleteQuote(organizationId(header), id))
  \/ Protected(header, PostCustomer(organizationId(header), [name |-> None, type |-> "Food Bank"]))
  \/ Protected(header, DeleteCustomer(organizationId(header), "c1"))
  \/ Protected(header, PostProduct(organizationId(header), UnpricedApples))
  \/ Protected(header, PutProduct(organizationId(header), "p1", GalaApples))
  \/ Protected(header, DeleteProduct(organizationId(header), "p1"))
  \/ Protected(header, ImportProducts(organizationId(header), <<GalaApples>>, "merge"))
  \/ Protected(header, GetSettings(organizationId(header)))
  \/ Protected(header, PutSettings(organizationId(header), [present |-> TRUE,
                                              settings |-> getDefaultSettings]))
  \/ Protected(header, GetRegions(organizationId(header)))
  \/ Protected(header, GetVolumeTiers(organizationId(header)))
  \/ Protected(header, ResetSettings(organizationId(header)))

\* the routes of /api/auth and /api/ai, mounted without requireAuth
OpenRequest(header) ==
  \/ \E body \in RegisterBodies, salt \in Salts : Register(body, salt)
  \/ \E body \in LoginBodies : Login(body)
  \/ \E body \in ChatBodies : AiChat(header, body, TRUE, "answer", OneTextBlock)
  \/ \E configured \in BOOLEAN, upstream \in UpstreamOutcomes :
       \* without ANTHROPIC_API_KEY the route returns before the upstream call
       /\ configured \/ upstream = "failure"
       /\ AiChat(header, PlainQuestion, configured, upstream, OneTextBlock)
  \/ \E body \in AnalyzeBodies : AiAnalyzeQuote(header, body, "answer")
  \/ \E upstream \in UpstreamOutcomes : AiAnalyzeQuote(header, FullAnalysis, upstream)
  \/ \E body \in SuggestBodies, upstream \in UpstreamOutcomes :
       AiSuggestMargin(header, body, upstream)

NextAuth == \E header \in Headers : ProtectedRequest(header)

SpecAuth == Init /\ [][NextAuth]_vars

\* the open routes, next to the creation of quotes
NextOpen ==
  \/ \E header \in Headers : OpenRequest(header)
  \/ Health
  \/ \E header \in Headers :
       Protected(header, PostQuote(organizationId(header), OneLineQuote))

SpecOpen == Init /\ [][NextOpen]_vars

\* registrations in flight together
NextRegister ==
  \/ \E r \in RequestIds, body \in RegisterBodies, salt \in Salts :
       RegisterReceive(r, body, salt)
  \/ \E r \in RequestIds : RegisterInsertOrganization(r)
  \/ \E r \in RequestIds, fails \in BOOLEAN : RegisterInsertUser(r, fails)
  \/ \E r \in RequestIds, fails \in BOOLEAN : RegisterInsertSettings(r, fails)

SpecRegister == Init /\ [][NextRegister]_vars

\* the settings row of seed.sql, for the seeded organization
SeedSettings ==
  SettingsDoc(DefaultRates, Arr(DefaultTiers),
              Arr(<<Region("east-bay", "East Bay", 25),
                    Region("sf", "San Francisco", 40),
                    Region("south-bay", "South Bay", 55),
                    Region("central-coast", "Central Coast", 120),
                    Region("sacramento", "Sacramento", 85),
                    Region("central-valley", "Central Valley", 150),
                    Region("socal", "Southern California", 400)>>))

\* the seeded database, and the routes that store or answer a default
\* settings document
InitDefaults ==
  /\ customers = SeedCustomers
  /\ products = SeedProducts
  /\ quotes = NoRows
  /\ quote_items = <<>>
  /\ pricing_settings = ("orgA" :> SeedSettings)
  /\ organizations = Orgs
  /\ users = SeedUsers
  /\ inflight = <<>>
  /\ resp = [op |-> None, org |-> None, code |-> 0]

NextDefaults ==
  \/ \E body \in RegisterBodies, salt \in Salts : Register(body, salt)
  \/ \E body \in LoginBodies : Login(body)
  \/ \E org \in OrgIds : GetSettings(org)
  \/ \E org \in OrgIds : AppGetSettings(org)
  \/ \E org \in OrgIds : ResetSettings(org)

SpecDefaults == InitDefaults /\ [][NextDefaults]_vars

\* registrations and logins: every email of the bodies, known or unknown,
\* with the right password, a wrong one, none, and one that is not a string
CredentialEmails ==
  {"admin@sabagrocers.org", "ops@sfusd.edu", "Pat@Farm.org", "pat@farm.org",
   "lee@coop.org", None}
CredentialPasswords == {"password123", "correct horse", "short", NumberPassword, None}
CredentialBodies ==
  {[email |-> e, password |-> p] : e \in CredentialEmails, p \in CredentialPasswords}

CredentialRegistrations ==
  RegisterBodies
    \cup {[email |-> "lee@coop.org", password |-> "correct horse", name |-> "Lee"]}

NextLogin ==
  \/ \E body \in CredentialRegistrations, salt \in Salts : Register(body, salt)
  \/ \E body \in CredentialBodies : Login(body)

SpecLogin == Init /\ [][NextLogin]_vars

\* the chat route alone: every body with and without the API key, and every
\* outcome of the upstream call, of which only an answer has content
NextChat ==
  \/ \E header \in Headers, body \in ChatBodies, configured \in BOOLEAN :
       AiChat(header, body, configured, "answer", OneTextBlock)
  \/ \E header \in Headers, upstream \in UpstreamOutcomes, content \in Contents :
       /\ upstream = "answer" \/ content = <<>>
       /\ AiChat(header, PlainQuestion, TRUE, upstream, content)

SpecChat == Init /\ [][NextChat]_vars

(***************************************************************************)
(* The order of a quote's lines: one tenant writing and reading quotes of  *)
(* up to two lines.                                                        *)
(***************************************************************************)
ApplesLine == Line("p1", 1000, 20)
MandarinsLine == Line("p2", 500, 15)

\* item lists in both orders, a single line, an empty list, and no items field
OrderBodies ==
  {QuoteBody(None, 40, None, TRUE, items) :
     items \in {<<ApplesLine, MandarinsLine>>, <<MandarinsLine, ApplesLine>>,
                <<MandarinsLine>>, <<>>}}
    \cup {QuoteBody(None, 25, None, FALSE, <<>>)}

NextOrder ==
  \/ \E body \in OrderBodies : PostQuote("orgA", body)
  \/ \E id \in QuoteIds, body \in OrderBodies : PutQuote("orgA", id, body)
  \/ \E id \in QuoteIds : GetQuote("orgA", id)
  \/ \E id \in QuoteIds : FinalizeQuote("orgA", id)
  \/ \E id \in QuoteIds : DeleteQuote("orgA", id)

SpecOrder == Init /\ [][NextOrder]_vars

\* updates of one stored quote of orgA in flight together
InitPut ==
  /\ customers = SeedCustomers
  /\ products = SeedProducts
  /\ quotes = (1 :> StoredQuote("orgA", "draft"))
  /\ quote_items = <<>>
  /\ pricing_settings = NoRows
  /\ organizations = Orgs
  /\ users = SeedUsers
  /\ inflight = <<>>
  /\ resp = [op |-> None, org |-> None, code |-> 0]

NextPut ==
  \/ \E r \in RequestIds, body \in OrderBodies : PutReceive(r, "orgA", 1, body)
  \/ \E r \in RequestIds : PutUpdate(r)
  \/ \E r \in RequestIds : PutDeleteItems(r)
  \/ \E r \in RequestIds : PutInsertItem(r)

SpecPut == InitPut /\ [][NextPut]_vars

(***************************************************************************)
(* The freight of stored lines: one tenant writing quotes whose lines the  *)
(* client priced, some of them with a freight below the minimum freight.   *)
(***************************************************************************)
\* a line whose freightCost the client left at 10.00, with the matching total
UnderFloorLine ==
  [productId |-> "p1", cases10 |-> 10, marginPercent |-> 20,
   unitCost |-> 2695, freightCost |-> 1000, lineTotal |-> 4234]

FreightBodies ==
  {QuoteBody(None, 40, None, TRUE, items) :
     items \in {<<ApplesLine>>, <<UnderFloorLine>>, <<ApplesLine, UnderFloorLine>>, <<>>}}

\* the settings GET /api/settings answers with for the organization
SettingsInForce(org) ==
  IF HasSettings(org) THEN pricing_settings[org] ELSE getDefaultSettings

NextFreight ==
  \/ \E body \in FreightBodies : PostQuote("orgA", body)
  \/ \E id \in QuoteIds, body \in FreightBodies : PutQuote("orgA", id, body)
  \/ \E id \in QuoteIds : GetQuote("orgA", id)
  \/ \E id \in QuoteIds : DeleteQuote("orgA", id)
  \/ GetSettings("orgA")
  \/ PutSettings("orgA", [present |-> TRUE, settings |-> getDefaultSettings])

SpecFreight == Init /\ [][NextFreight]_vars

(***************************************************************************)
(* The pricing calculator, price_line of section 4.1 of the specification. *)
(* The server holds no pricing code: the README places the freight         *)
(* calculations in the frontend's logistics.js.  Currency is in cents;     *)
(* intermediate values are kept exact, as a number of hundredths or ten-   *)
(* thousandths of a cent, and rounded to cents only in the result.         *)
(***************************************************************************)
\* n / d rounded to the nearest integer, halves upwards
RoundDiv(n, d) == (2 * n + d) \div (2 * d)

\* ceil(cases / casesPerPallet)
Pallets(cases, casesPerPallet) == (cases + casesPerPallet - 1) \div casesPerPallet

\* freight per pallet = baseFreightRate + perMileRate * distance
FreightPerPallet(settings, distance) ==
  settings.baseFreightRate.value + settings.perMileRate.value * distance

\* the discount of the first tier with minCases <= cases <= maxCases, in
\* declaration order; no discount when no tier matches
TierDiscount(tiers, cases) ==
  LET hits == {i \in 1..Len(tiers) :
                 tiers[i].minCases <= cases /\ cases <= tiers[i].maxCases}
  IN  IF hits = {} THEN 0
      ELSE tiers[CHOOSE i \in hits : \A j \in hits : i <= j].discount

\* a line without a pallet-break surcharge
PalletBreakWaived(settings, perPallet, cases, casesPerPallet) == 0

\* partial pallets incur palletBreakSurcharge percent additional on the
\* fractional pallet's share, the one pallet's worth of freight that the
\* rounding up of the pallet count charges for it; in hundredths of a cent
PalletBreak(settings, perPallet, cases, casesPerPallet) ==
  IF cases % casesPerPallet = 0 THEN 0
  ELSE perPallet * settings.palletBreakSurcharge.value

\* total freight of the line in ten-thousandths of a cent: the pallets'
\* worth of freight and the surcharge, less the tier's discount, floored at
\* minFreight
FreightTotal(product, cases, distance, settings) ==
  LET perPallet == FreightPerPallet(settings, distance)
      gross == Pallets(cases, product.cases_per_pallet) * perPallet * 100
                 + PalletBreak(settings, perPallet, cases, product.cases_per_pallet)
      net == gross * (100 - TierDiscount(settings.volumeTiers.value, cases))
      floor == settings.minFreight.value * 10000
  IN  IF net < floor THEN floor ELSE net

\* the customer-type default margin of the settings
DefaultMargin(settings, customer_type) ==
  IF customer_type = "Food Bank" THEN settings.marginFoodBank.value
  ELSE IF customer_type = "School District" THEN settings.marginSchool.value
  ELSE settings.marginCorporate.value

InvalidInput ==
  [error |-> "InvalidInput", unit_cost |-> 0, freight_cost |-> 0, line_total |-> 0]

\* the priced line for a given margin: sale price per case = costPerCase *
\* (1 + marginPercent / 100), line_total = sale price * cases + freight total
PricedAt(product, cases10, marginPercent, distance, settings) ==
  IF cases10 <= 0 \/ cases10 % 10 # 0 THEN InvalidInput
  ELSE LET cases == cases10 \div 10
           sale == product.cost_per_case * (100 + marginPercent)
           freight == FreightTotal(product, cases, distance, settings)
       IN  [error |-> None,
            unit_cost |-> RoundDiv(sale, 100),
            freight_cost |-> RoundDiv(freight, 10000),
            line_total |-> (sale * cases) \div 100 + freight \div 10000
                             + RoundDiv(((sale * cases) % 100) * 100 + (freight % 10000),
                                        10000)]

\* price_line(product, cases, customer_type, distance, settings), the margin
\* being the customer-type default
price_line(product, cases10, customer_type, distance, settings) ==
  PricedAt(product, cases10, DefaultMargin(settings, customer_type), distance, settings)

\* one call of the calculator; margin is the override on the line, <<>> for
\* the customer-type default and <<m>> for a margin of m percent
PriceLine(pid, cases10, customer_type, distance, margin, settings) ==
  /\ resp' = [op |-> "price_line", org |-> None, code |-> 0,
              product |-> pid, cases10 |-> cases10, customer_type |-> customer_type,
              distance |-> distance, margin |-> margin, settings |-> settings,
              priced |-> IF margin = <<>>
                         THEN price_line(products[pid], cases10, customer_type,
                                         distance, settings)
                         ELSE PricedAt(products[pid], cases10, margin[1], distance, settings)]
  /\ UNCHANGED <<customers, products, quotes, quote_items, pricing_settings,
                 organizations, users, inflight>>

\* the default settings, the same without a pallet-break surcharge, and the
\* same with a minimum freight of 800.00
SurchargeFreeSettings == [getDefaultSettings EXCEPT !.palletBreakSurcharge = Num(0)]
HighFloorSettings == [getDefaultSettings EXCEPT !.minFreight = Num(80000)]
CalculatorSettings == {getDefaultSettings, SurchargeFreeSettings, HighFloorSettings}

\* 0, 1.5, 1, 49, 50, 98, 100 and 151 cases
CalculatorCases10 == {0, 15, 10, 490, 500, 980, 1000, 1510}
CalculatorDistances == {0, 25, 40}
CalculatorMargins == {<<>>, <<20>>}

NextPricing ==
  \E pid \in DOMAIN products, cases10 \in CalculatorCases10,
     customer_type \in {"Food Bank", "School District"},
     distance \in CalculatorDistances, margin \in CalculatorMargins,
     settings \in CalculatorSettings :
    PriceLine(pid, cases10, customer_type, distance, margin, settings)

SpecPricing == Init /\ [][NextPricing]_vars

(***************************************************************************)
(* Properties.  In every step exactly one request is handled, and resp' is *)
(* its response, so resp'.org is the organization of the caller.           *)
(***************************************************************************)
RowsOfOthers(table, org) == {k \in DOMAIN table : table[k].organization_id # org}

\* C1: tenant write isolation.  A request authenticated for organization A
\* inserts, updates and deletes no row of another organization: the customers,
\* products, quotes and settings of the others are the same after the request,
\* and so are the line items of each of their quotes.
C1_TenantWriteIsolation ==
  [][LET caller == resp'.org
     IN /\ \A id \in RowsOfOthers(quotes, caller) :
             /\ id \in DOMAIN quotes' /\ quotes'[id] = quotes[id]
             /\ ItemsOf(quote_items', id) = ItemsOf(quote_items, id)
        /\ RowsOfOthers(quotes', caller) \subseteq RowsOfOthers(quotes, caller)
        /\ \A id \in RowsOfOthers(customers, caller) :
             id \in DOMAIN customers' /\ customers'[id] = customers[id]
        /\ RowsOfOthers(customers', caller) \subseteq RowsOfOthers(customers, caller)
        /\ \A id \in RowsOfOthers(products, caller) :
             id \in DOMAIN products' /\ products'[id] = products[id]
        /\ RowsOfOthers(products', caller) \subseteq RowsOfOthers(products, caller)
        /\ \A org \in Orgs \ {caller} :
             /\ (org \in DOMAIN pricing_settings) = (org \in DOMAIN pricing_settings')
             /\ org \in DOMAIN pricing_settings
                  => pricing_settings'[org] = pricing_settings[org]
    ]_vars

\* C2: tenant read isolation.  The answer of GET /api/quotes and of
\* GET /api/quotes/:id to organization A is built only from rows A owns: the
\* quote, the customer joined to it and the product joined to each line.
C2_TenantReadIsolation ==
  resp.op \in {"GET /api/quotes", "GET /api/quotes/:id"} /\ resp.code = 200
    => resp.sources \subseteq {resp.org}

\* position of a status in the one-directional life cycle
StatusRank(s) ==
  CASE s = "draft" -> 0
    [] s = "sent" -> 1
    [] s = "accepted" -> 2
    [] s = "rejected" -> 2
    [] s = "expired" -> 2
    [] OTHER -> 0 - 1

C4_DraftInitial ==
  /\ resp.op = "POST /api/quotes" /\ resp.id \in DOMAIN quotes
       => quotes[resp.id].status = "draft"
  /\ \A id \in DOMAIN quotes : quotes[id].status \in Statuses

\* C4 witness: a quote was created from a body naming another status than
\* draft, and is stored as a draft.
C4_Witness ==
  /\ resp.op = "POST /api/quotes" /\ resp.code = 201
  /\ resp.asked \in {"sent", "accepted", "void"}
  /\ resp.id \in DOMAIN quotes /\ quotes[resp.id].status = "draft"

\* what GET /api/quotes/:id shows of the prices of a quote's lines
PriceView(id) ==
  [i \in 1..Len(JoinedItems(id)) |->
     <<JoinedItems(id)[i].unit_cost, JoinedItems(id)[i].freight_cost,
       JoinedItems(id)[i].line_total>>]

ProductOps ==
  {"POST /api/products", "PUT /api/products/:id", "DELETE /api/products/:id",
   "POST /api/products/import"}

\* C5: line-item prices are snapshots.  A product request (create, update,
\* delete, import in either mode) leaves every stored line item with its
\* unit_cost, freight_cost and line_total, and a sent quote reads back the same
\* three values of each line through GET /api/quotes/:id after it.
C5_PricesAreSnapshots ==
  [][resp'.op \in ProductOps =>
       /\ Len(quote_items') = Len(quote_items)
       /\ \A i \in 1..Len(quote_items) :
            /\ quote_items'[i].unit_cost = quote_items[i].unit_cost
            /\ quote_items'[i].freight_cost = quote_items[i].freight_cost
            /\ quote_items'[i].line_total = quote_items[i].line_total
       /\ \A id \in DOMAIN quotes :
            quotes[id].status = "sent" => PriceView(id)' = PriceView(id)
    ]_vars

\* C5 witness: the product of a line of a sent quote was updated to another
\* cost per case than the line's unit cost.
C5_Witness ==
  /\ resp.op = "PUT /api/products/:id" /\ resp.code = 200
  /\ \E i \in 1..Len(quote_items) :
       /\ quote_items[i].product_id = resp.id
       /\ quotes[quote_items[i].quote_id].status = "sent"
       /\ products[resp.id].cost_per_case # quote_items[i].unit_cost

\* C6: every stored line item has a positive integer number of cases and a
\* margin between 0 and 100, and a POST or PUT of a quote that carries a line
\* with cases <= 0, non-integer cases or a margin outside 0..100 is answered
\* with an input-validation error.
C6_LinesValidated ==
  /\ \A i \in 1..Len(quote_items) :
       /\ quote_items[i].cases > 0
       /\ quote_items[i].margin_percent >= 0 /\ quote_items[i].margin_percent <= 100
  /\ resp.op \in {"POST /api/quotes", "PUT /api/quotes/:id"} /\ resp.code # 404
       /\ resp.badLine
       => resp.code = 400

\* C7: every document PUT /api/settings accepts and stores satisfies the
\* volume-tier invariant: tiers ordered, not overlapping, minCases <= maxCases,
\* and every case count from 0 upward in exactly one tier.
C7_StoredTiersValid ==
  resp.op = "PUT /api/settings" /\ resp.code = 200
    => VolumeTierInvariant(pricing_settings[resp.org].volumeTiers)

\* C8: the default settings document (the fallback of GET /api/settings, the
\* document POST /api/settings/reset writes) satisfies the volume-tier
\* invariant: every case count >= 0, without upper bound, is in exactly one tier.
C8_DefaultTiersValid ==
  (\/ resp.op = "GET /api/settings" /\ resp.server = "router" /\ resp.fallback
   \/ resp.op = "POST /api/settings/reset")
    => VolumeTierInvariant(resp.settings.volumeTiers)

SettingsGets ==
  {"GET /api/settings", "GET /api/settings/regions", "GET /api/settings/volume-tiers"}

\* C9: missing configuration is never fatal.  For an organization without a
\* pricing_settings row the three GET routes of /api/settings answer 200 with
\* the content of the default settings document, its tiers and regions included.
C9_FallbackIsDefault ==
  resp.op \in SettingsGets /\ resp.fallback
    => /\ resp.code = 200
       /\ resp.op = "GET /api/settings" => resp.settings = getDefaultSettings
       /\ resp.op = "GET /api/settings/regions"
            => resp.regions = getDefaultSettings.regions
       /\ resp.op = "GET /api/settings/volume-tiers"
            => resp.volumeTiers = getDefaultSettings.volumeTiers

\* a settings body the service is to refuse: no settings object, a rate that is
\* negative or not a number, volumeTiers or regions that is not a list
InvalidSettings(body) ==
  \/ ~body.present
  \/ BadRate(body.settings.baseFreightRate)
  \/ BadRate(body.settings.perMileRate)
  \/ BadRate(body.settings.palletBreakSurcharge)
  \/ BadRate(body.settings.minFreight)
  \/ body.settings.volumeTiers.type # "array"
  \/ body.settings.regions.type # "array"

\* C10: invalid settings are surfaced and have no effect.  PUT /api/settings
\* with an invalid document is answered with 400 and leaves the stored settings
\* of the organization as they were.
C10_InvalidSettingsRefused ==
  [][resp'.op = "PUT /api/settings" /\ InvalidSettings(resp'.body)
       => resp'.code = 400 /\ pricing_settings' = pricing_settings
    ]_vars

\* C11: deleting a customer never deletes or blocks on its quotes.  DELETE
\* /api/customers/:id of a customer of the caller succeeds also when quotes
\* refer to it; those quotes stay stored with a null customer reference and
\* with their line items, and GET /api/quotes/:id of a stored quote of the
\* caller answers 200 with the quote and all of its lines.
C11_CustomerDeleteKeepsQuotes ==
  [][/\ resp'.op = "DELETE /api/customers/:id"
          /\ resp'.id \in DOMAIN customers
          /\ customers[resp'.id].organization_id = resp'.org
        => /\ resp'.code = 200
           /\ resp'.id \notin DOMAIN customers'
           /\ DOMAIN quotes' = DOMAIN quotes
           /\ \A q \in DOMAIN quotes :
                quotes'[q] = IF quotes[q].customer_id = resp'.id
                             THEN [quotes[q] EXCEPT !.customer_id = None]
                             ELSE quotes[q]
           /\ quote_items' = quote_items
     /\ resp'.op = "GET /api/quotes/:id"
          /\ resp'.id \in DOMAIN quotes
          /\ quotes[resp'.id].organization_id = resp'.org
        => /\ resp'.code = 200
           /\ resp'.quote = quotes[resp'.id]
           /\ Len(resp'.items) = Len(ItemsOf(quote_items, resp'.id))
           /\ resp'.quote.customer_id = None => resp'.customer_name = None
    ]_vars

\* C11 witness: a customer that a quote with a line referred to was deleted,
\* and the quote is stored with its line and a null customer reference.
C11_Witness ==
  /\ resp.op = "DELETE /api/customers/:id" /\ resp.code = 200
  /\ \E q \in resp.referring :
       /\ q \in DOMAIN quotes /\ quotes[q].customer_id = None
       /\ Len(ItemsOf(quote_items, q)) > 0

\* C12: all endpoints except /api/health require a JWT.  A request to any other
\* route (register, login and the three AI routes included) whose Authorization
\* header carries no valid Bearer token is rejected with 401 and does no work:
\* nothing stored changes and the upstream API is not called.
C12_EveryRouteRequiresToken ==
  [][\A header \in Headers :
       ~ValidBearer(header) /\ (ProtectedRequest(header) \/ OpenRequest(header))
         => /\ resp'.code = 401
            /\ "called" \in DOMAIN resp' => ~resp'.called
            /\ UNCHANGED <<customers, products, quotes, quote_items, pricing_settings,
                           organizations, users>>
    ]_vars

\* C20: every route under /api/quotes, /api/customers, /api/products and
\* /api/settings answers 401 to a request whose Authorization header is
\* missing, does not start with "Bearer ", or carries a token that fails
\* verification; the response is the middleware's, the handler is not run and
\* nothing stored changes.
C20_ProtectedRoutesAnswer401 ==
  [][\A header \in Headers :
       ~ValidBearer(header) /\ ProtectedRequest(header)
         => /\ resp'.code = 401
            /\ "error" \in DOMAIN resp'
            /\ resp'.error = IF ~header.present \/ header.scheme # "Bearer"
                             THEN "Authentication required" ELSE "Invalid token"
            /\ UNCHANGED <<customers, products, quotes, quote_items, pricing_settings,
                           organizations, users>>
    ]_vars

\* C20 witness: a request with a Bearer token that fails verification was
\* answered 401 by the middleware while a quote with a line is stored.
C20_Witness ==
  /\ resp.code = 401 /\ "error" \in DOMAIN resp /\ resp.error = "Invalid token"
  /\ resp.op = "requireAuth"
  /\ DOMAIN quotes # {} /\ Len(quote_items) > 0

\* the routes that hand a quote to buildSystemPrompt
SummaryOps == {"POST /api/ai/chat", "POST /api/ai/analyze-quote"}

\* sum of cases, and of lineTotal, over a list of lines, a missing value as 0
RECURSIVE SumOfCases(_)
SumOfCases(items) ==
  IF items = <<>> THEN 0
  ELSE (IF Head(items).cases.type = "number" THEN Head(items).cases.value ELSE 0)
         + SumOfCases(Tail(items))

RECURSIVE SumOfLineTotals(_)
SumOfLineTotals(items) ==
  IF items = <<>> THEN 0
  ELSE (IF Head(items).lineTotal.type = "number" THEN Head(items).lineTotal.value ELSE 0)
         + SumOfLineTotals(Tail(items))

\* C13: the summary built for the AI context reports, for any list of line
\* items (the empty one included), total_cases equal to the sum of cases and
\* total_value equal to the sum of lineTotal, a missing value counting as 0.
C13_TotalsAreSums ==
  resp.op \in SummaryOps /\ resp.called /\ resp.asked.quote
    => /\ Len(resp.totals) = 1
       /\ resp.totals[1].totalCases = SumOfCases(resp.asked.items)
       /\ resp.totals[1].totalValue = SumOfLineTotals(resp.asked.items)

\* C14: the BIPOC share of any quote is the number of flagged lines over the
\* number of lines, lies between 0 and 1 (0 and 100 as a percent), and is 0
\* for a quote with no lines.
C14_BipocShare ==
  resp.op \in SummaryOps /\ resp.called /\ resp.asked.quote
    => /\ Len(resp.totals) = 1
       /\ LET t == resp.totals[1]
              items == resp.asked.items
              flagged == Cardinality({i \in 1..Len(items) : items[i].bipoc})
          IN /\ t.bipocCount = flagged /\ t.lines = Len(items)
             /\ 0 <= t.bipocCount /\ t.bipocCount <= t.lines
             /\ 0 <= t.bipocPercent /\ t.bipocPercent <= 100
             /\ Len(items) = 0 => t.bipocPercent = 0
             \* the percent shown is the share rounded to a whole percent
             /\ Len(items) > 0
                  => /\ 2 * (t.bipocPercent * Len(items) - 100 * flagged) <= Len(items)
                     /\ 2 * (100 * flagged - t.bipocPercent * Len(items)) <= Len(items)

\* C15: summarising an empty quote succeeds.  A quote with no line items handed
\* to POST /api/ai/chat or to POST /api/ai/analyze-quote is not refused as
\* invalid, and the summary built for it is total_cases 0, total_value 0,
\* BIPOC share 0.
C15_EmptyQuoteSummarised ==
  resp.op \in SummaryOps /\ resp.asked.quote /\ resp.asked.items = <<>>
    => /\ resp.code # 400
       /\ resp.called
            => /\ Len(resp.totals) = 1
               /\ resp.totals[1].totalCases = 0
               /\ resp.totals[1].totalValue = 0
               /\ resp.totals[1].bipocPercent = 0

AiOps == SummaryOps \cup {"POST /api/ai/suggest-margin"}

\* C16: summarising has no effect on stored state.  No request to one of the
\* three AI routes, whatever its body, its header and its outcome, changes a
\* stored quote, line item, product, customer, settings, organization or user.
C16_AiRoutesChangeNothing ==
  [][resp'.op \in AiOps
       => UNCHANGED <<customers, products, quotes, quote_items, pricing_settings,
                      organizations, users>>
    ]_vars

\* C16 witness: a quote with lines was analysed successfully while quotes with
\* lines are stored.
C16_Witness ==
  /\ resp.op = "POST /api/ai/analyze-quote" /\ resp.code = 200
  /\ Len(resp.asked.items) > 0
  /\ DOMAIN quotes # {} /\ Len(quote_items) > 0

\* the lines of a body, of a stored quote and of a response, each as the list
\* of what identifies a line
LinesSent(body) ==
  [i \in 1..Len(body.items) |->
     <<body.items[i].productId, body.items[i].cases10 \div 10, body.items[i].marginPercent>>]

LinesStored(items, id) ==
  [i \in 1..Len(ItemsOf(items, id)) |->
     <<ItemsOf(items, id)[i].product_id, ItemsOf(items, id)[i].cases,
       ItemsOf(items, id)[i].margin_percent>>]

LinesReturned(r) ==
  [i \in 1..Len(r.items) |->
     <<r.items[i].product_id, r.items[i].cases, r.items[i].margin_percent>>]

\* C17: GET /api/quotes/:id returns the lines of a quote in the order in which
\* the POST /api/quotes body, or the most recent PUT /api/quotes/:id body that
\* carried items, supplied them.  A successful POST or PUT with items leaves
\* the quote with exactly the body's lines in the body's order; a PUT without
\* items, a finalize and a request for another quote leave them as they are;
\* GET returns them as they are.
C17_ItemsKeepBodyOrder ==
  [][/\ \A body \in OrderBodies :
          PostQuote("orgA", body) /\ resp'.code = 201
            => LinesStored(quote_items', resp'.id) = LinesSent(body)
     /\ \A id \in QuoteIds, body \in OrderBodies :
          PutQuote("orgA", id, body) /\ resp'.code = 200
            => LinesStored(quote_items', id)
                 = IF body.hasItems THEN LinesSent(body) ELSE LinesStored(quote_items, id)
     /\ resp'.op \in {"POST /api/quotes", "PUT /api/quotes/:id", "GET /api/quotes/:id",
                      "POST /api/quotes/:id/finalize"}
          => \A id \in QuoteIds :
               id # resp'.id \/ resp'.op \in {"GET /api/quotes/:id",
                                              "POST /api/quotes/:id/finalize"}
                 => LinesStored(quote_items', id) = LinesStored(quote_items, id)
     /\ resp'.op = "GET /api/quotes/:id" /\ resp'.code = 200
          => LinesReturned(resp') = LinesStored(quote_items, resp'.id)
    ]_vars

\* C17 witness: a quote of two lines was read back with the mandarins before
\* the apples, the order of neither the product ids nor the product names.
C17_Witness ==
  /\ resp.op = "GET /api/quotes/:id" /\ resp.code = 200
  /\ Len(resp.items) = 2
  /\ resp.items[1].product_id = "p2" /\ resp.items[2].product_id = "p1"

\* C18: the freight_cost held by every stored quote line item is at least the
\* minFreight of the pricing settings of the organization that owns the quote.
C18_FreightAtLeastMinimum ==
  \A i \in 1..Len(quote_items) :
    quote_items[i].quote_id \in DOMAIN quotes
      => LET settings == SettingsInForce(quotes[quote_items[i].quote_id].organization_id)
         IN  settings.minFreight.type = "number"
               => quote_items[i].freight_cost >= settings.minFreight.value

\* the call of the worked example: Apples, Gala (26.95 per case, 49 cases per
\* pallet), 100 cases, 40 miles, margin 20 percent
WorkedExampleCall ==
  /\ resp.op = "price_line" /\ resp.product = "p1" /\ resp.cases10 = 1000
  /\ resp.distance = 40 /\ resp.margin = <<20>>

ChatStatus(request) ==
  IF request.message.type # "string" \/ request.message.value = "" THEN 400
  ELSE IF ~request.configured THEN 503
  ELSE CASE request.upstream = "answer" -> 200
         [] request.upstream = "status 401" -> 503
         [] request.upstream = "status 429" -> 429
         [] OTHER -> 500

TextBlocksOf(content) == {i \in 1..Len(content) : content[i].type = "text"}

UsersOf(org) == {email \in DOMAIN users : users[email].organization_id = org}

\* C22: once every POST /api/auth/register has completed, each organization
\* that registration created has exactly one user, an admin, and a
\* pricing_settings row; a request answered 409 or 500 left no row behind.
C22_RegistrationAllOrNothing ==
  inflight = <<>>
    => \A org \in organizations \ Orgs :
         /\ Cardinality(UsersOf(org)) = 1
         /\ \A email \in UsersOf(org) : users[email].role = "admin"
         /\ org \in DOMAIN pricing_settings

\* C23: a POST /api/quotes or PUT /api/quotes/:id that answers with an error
\* leaves the stored quotes and line items exactly as they were.
C23_QuoteWritesAtomic ==
  [][resp'.op \in {"POST /api/quotes", "PUT /api/quotes/:id"} /\ resp'.code >= 400
       => quotes' = quotes /\ quote_items' = quote_items]_vars

\* the item lists of the answered updates of quote id that carried items
ListsPut(id) ==
  {LinesSent(inflight[r].body) :
     r \in {q \in DOMAIN inflight : inflight[q].id = id /\ inflight[q].body.hasItems}}

\* C24: when the PUT /api/quotes/:id requests for one quote have all answered
\* success, interleaved in any order, the quote's stored lines are exactly the
\* item list of one of them.
C24_ConcurrentPutsSerializable ==
  \A id \in QuoteIds :
    /\ \A r \in DOMAIN inflight : inflight[r].pc = "answered" /\ inflight[r].code = 200
    /\ ListsPut(id) # {}
    => LinesStored(quote_items, id) \in ListsPut(id)

\* C25: a finalized quote is immutable through the update route.  Once a
\* quote's status is sent, no PUT /api/quotes/:id changes its customer,
\* distance, notes or line items.
C25_FinalizedQuoteImmutable ==
  [][resp'.op = "PUT /api/quotes/:id"
       => \A id \in DOMAIN quotes :
            quotes[id].status = "sent"
              => /\ id \in DOMAIN quotes'
                 /\ quotes'[id] = quotes[id]
                 /\ ItemsOf(quote_items', id) = ItemsOf(quote_items, id)]_vars

\* C26: referential integrity.  In every reachable state each quote line item
\* references a stored quote and a stored product: no delete of a product, no
\* import in mode replace and no delete of a quote leaves a line behind whose
\* quote or product is gone.
C26_ReferentialIntegrity ==
  \A i \in 1..Len(quote_items) :
    /\ quote_items[i].quote_id \in DOMAIN quotes
    /\ quote_items[i].product_id \in DOMAIN products

\* C26 witness: the delete of a product that a stored line references was
\* refused, and the line and the product are stored.
C26_Witness ==
  /\ resp.op = "DELETE /api/products/:id" /\ resp.code = 500
  /\ resp.id \in DOMAIN products
  /\ \E i \in 1..Len(quote_items) : quote_items[i].product_id = resp.id

\* the rows of the products of an organization
ProductRowsOf(prods, org) ==
  {prods[id] : id \in {k \in DOMAIN prods : prods[k].organization_id = org}}

\* C27: merge import is idempotent.  A merge import of the list that the
\* merge import before it carried reports imported = 0 and leaves the
\* organization with the same products, and after a merge import no two
\* products of the organization have the same name and farm.
C27_MergeImportIdempotent ==
  [][resp'.op = "POST /api/products/import" /\ resp'.code = 200 /\ resp'.mode = "merge"
       => /\ \A a, b \in DOMAIN products' :
               /\ products'[a].organization_id = resp'.org
               /\ products'[b].organization_id = resp'.org
               /\ products'[a].name = products'[b].name
               /\ products'[a].farm = products'[b].farm
               => a = b
          /\ resp.op = "POST /api/products/import" /\ resp.code = 200
               /\ resp.mode = "merge" /\ resp.org = resp'.org /\ resp.list = resp'.list
               => /\ resp'.imported = 0
                  /\ ProductRowsOf(products', resp'.org) = ProductRowsOf(products, resp'.org)
                  /\ Cardinality(DOMAIN products') = Cardinality(DOMAIN products)]_vars

\* C28: there is one default settings document.  The document that
\* POST /api/auth/register stores for a new organization, the document
\* GET /api/settings answers with when the organization has no settings row,
\* the document POST /api/settings/reset stores and the seeded document are
\* equal field for field.
C28_OneDefaultDocument ==
  /\ resp.op = "POST /api/auth/register" /\ resp.code = 201
       => pricing_settings[resp.org] = SeedSettings
  /\ resp.op = "GET /api/settings" /\ resp.fallback
       => resp.settings = SeedSettings
  /\ resp.op = "POST /api/settings/reset"
       => resp.settings = SeedSettings /\ pricing_settings[resp.org] = SeedSettings

\* C29: login does not reveal whether an email is registered.  Whenever the
\* lower-cased email of a login request is unknown, or is known and the
\* password does not verify against the stored salted hash, the answer is
\* the same 401 with the same body; a token is returned only when the email
\* is known and the password verifies.
C29_LoginDoesNotReveal ==
  resp.op = "POST /api/auth/login" /\ resp.email # None /\ resp.password # None
    => LET email == toLowerCase(resp.email)
           verified == /\ email \in DOMAIN users
                       /\ verifyPassword(resp.password, users[email].password_hash)
       IN /\ ~verified => resp.code = 401 /\ resp.error = "Invalid email or password"
          /\ "token" \in DOMAIN resp => verified

====
